---------------------------- MODULE Spec2Model ----------------------------
(***************************************************************************)
(* A model of src/model/simalign.py (class Simalign): the matchers that    *)
(* turn a similarity matrix into an alignment matrix, and the entry points *)
(* align_sentences, align_spans_iter and align_spans_bidirection that      *)
(* drive them over a list of sentence pairs.                               *)
(*                                                                         *)
(* Numbers.  A similarity is a rational in [0,1].  A matrix is a record    *)
(* [m, n, a, den]: m rows, n columns, integer numerators a[i][j] and one   *)
(* positive denominator den shared by all its cells, so that the value of  *)
(* cell (i,j) is a[i][j]/den.  Arithmetic is exact (the code's float       *)
(* rounding is not modelled).  NaN is the one non-finite value the code    *)
(* can produce (0/0 in get_similarity_norm); every comparison with it is   *)
(* false, as in IEEE arithmetic.                                           *)
(*                                                                         *)
(* Strings.  A Python str is a sequence of code points, so that sorted()   *)
(* on strings is the lexicographic order on such sequences.                *)
(***************************************************************************)
EXTENDS Integers, Sequences, FiniteSets, TLC

VARIABLES
    pc,                 \* position of the running call
    token_type,         \* self.token_type
    matching_methods,   \* self.matching_methods (the looked-up method name)
    distortion,         \* self.distortion, as a numerator over RatioDen
    source_len,         \* len(source_sentences)
    target_len,         \* len(target_sentences)
    words_tokens,       \* words_tokens: per pair, the two tokenized sentences
    embeds,             \* per pair, what the provider's span and word vectors give
    sent_id,            \* the loop index of the running loop
    vectors,            \* the vectors of the pair at hand, given by their similarity
    sim,                \* the similarity matrix of the pair at hand
    all_mats,           \* the alignment matrix the pair's links are read from
    aligns,             \* the list of alignment strings built so far
    result,             \* what the call returned, or the error it raised
    alignmatrix,        \* get_alignmatrix_iter's matrix of committed cells
    cur_inter,          \* iter_max: the accumulator inter
    cur_count,          \* iter_max: count
    arg_max_count,      \* iter_max: the argument max_count
    pass,               \* align_spans_bidirection: the pass of the outer loop
    s2t_aligns,         \* align_spans_bidirection: the first list of strings
    t2s_aligns          \* align_spans_bidirection: the second list of strings

\* the object's configuration
objVars == <<token_type, matching_methods, distortion>>

\* the sentence lists of the call and their tokenization
corpusVars == <<source_len, target_len, words_tokens, embeds>>

\* what only the span entry points use
\* the locals of iter_max
roundVars == <<cur_inter, cur_count, arg_max_count>>

\* the locals of the span matchers, and those of iter_max
spanVars == <<alignmatrix, pass, s2t_aligns, t2s_aligns, roundVars>>

vars == <<pc, objVars, corpusVars, sent_id, vectors, sim, all_mats, aligns, result, spanVars>>

---------------------------------------------------------------------------
(* Bounds of the model *)

\* sentence lists hold 0..MaxSents sentences
MaxSents == 2
\* similarity numerators range over 0..MaxSim, the value being k/MaxSim
MaxSim == 2
\* the number of words of the long sentence (indices reach two digits)
LongWords == 11

---------------------------------------------------------------------------
(* Small helpers *)

Min(a, b) == IF a <= b THEN a ELSE b

Max(a, b) == IF a >= b THEN a ELSE b

RECURSIVE SumTo(_, _)
\* f[0] + ... + f[k-1]
SumTo(f, k) == IF k = 0 THEN 0 ELSE f[k - 1] + SumTo(f, k - 1)

Range(s) == {s[k] : k \in DOMAIN s}

\* the largest element of a non-empty set of integers
MaxOf(S) == CHOOSE x \in S : \A y \in S : y <= x

\* the table a with every cell computed once, as an ndarray holds it
Concrete(a) == [i \in DOMAIN a |-> a[i] @@ <<>>] @@ <<>>

\* the matrix of shape m x n whose numerators are the values of a
Matrix(m, n, den, a) == [m |-> m, n |-> n, den |-> den, a |-> Concrete(a)]

Rows(M) == 0 .. M.m - 1

Cols(M) == 0 .. M.n - 1

\* the value no matrix carries: the state before a matrix exists
NoMatrix == [m |-> 0, n |-> 0, den |-> 1, a |-> <<>>]


---------------------------------------------------------------------------
(* numpy's argmax: the first index attaining the maximum *)

\* the last index attaining the maximum instead of the first; the one-hot
\* theorem does not survive it
ArgmaxOfRowLast(M, i) ==
    CHOOSE j \in Cols(M) :
        /\ \A k \in Cols(M) : M.a[i][k] <= M.a[i][j]
        /\ \A k \in Cols(M) : k > j => M.a[i][k] < M.a[i][j]

\* sim_matrix.argmax(axis=1)[i]
ArgmaxOfRow(M, i) ==
    CHOOSE j \in Cols(M) :
        /\ \A k \in Cols(M) : M.a[i][k] <= M.a[i][j]
        /\ \A k \in Cols(M) : k < j => M.a[i][k] < M.a[i][j]

\* sim_matrix.argmax(axis=0)[j]
ArgmaxOfCol(M, j) ==
    CHOOSE i \in Rows(M) :
        /\ \A k \in Rows(M) : M.a[k][j] <= M.a[i][j]
        /\ \A k \in Rows(M) : k < i => M.a[k][j] < M.a[i][j]

\* argmax over an axis of length 0 raises ValueError: argmax(axis=1) reduces
\* the n columns, argmax(axis=0) the m rows
ArgmaxRaises(M) == M.m = 0 \/ M.n = 0

\* forward = np.eye(n)[sim_matrix.argmax(axis=1)]
ForwardArgmaxFirst(M) ==
    Matrix(M.m, M.n, 1,
           [i \in 0 .. M.m - 1 |-> [j \in 0 .. M.n - 1 |->
                IF j = ArgmaxOfRow(M, i) THEN 1 ELSE 0]])

\* backward.transpose(), backward = np.eye(m)[sim_matrix.argmax(axis=0)]
BackwardArgmaxFirst(M) ==
    Matrix(M.m, M.n, 1,
           [i \in 0 .. M.m - 1 |-> [j \in 0 .. M.n - 1 |->
                IF i = ArgmaxOfCol(M, j) THEN 1 ELSE 0]])

\* get_alignment_matrix: the pair (forward, backward transposed)
get_alignment_matrix(sim_matrix) ==
    [fwd |-> ForwardArgmaxFirst(sim_matrix), rev |-> BackwardArgmaxFirst(sim_matrix)]

\* all_mats["inter"] = all_mats["fwd"] * all_mats["rev"]
Intersection(fr) ==
    Matrix(fr.fwd.m, fr.fwd.n, 1,
           [i \in 0 .. fr.fwd.m - 1 |-> [j \in 0 .. fr.fwd.n - 1 |->
                fr.fwd.a[i][j] * fr.rev.a[i][j]]])

---------------------------------------------------------------------------
(* apply_distortion *)

\* distortion ratios are RatioNum/RatioDen
RatioDen == 2

Ratios == 0 .. RatioDen

\* the mask with the penalty added instead of subtracted; the diagonal
\* theorem does not survive it
DistortionMaskAdded(m, n, ratio, i, j) ==
    RatioDen * ((m - 1) * (n - 1)) * ((m - 1) * (n - 1))
        + ratio * (j * (m - 1) - i * (n - 1)) * (j * (m - 1) - i * (n - 1))

\* mask[i][j] = 1 - ((j/(n-1) - i/(m-1)) ** 2) * ratio, over the common
\* denominator RatioDen * ((m-1)*(n-1))^2
DistortionMaskNum(m, n, ratio, i, j) ==
    RatioDen * ((m - 1) * (n - 1)) * ((m - 1) * (n - 1))
        - ratio * (j * (m - 1) - i * (n - 1)) * (j * (m - 1) - i * (n - 1))

\* apply_distortion without the test of the shape: the mask is computed for
\* every matrix that is given a ratio
apply_distortion_any_shape(sim_matrix, ratio) ==
    IF ratio = 0
    THEN sim_matrix
    ELSE Matrix(sim_matrix.m, sim_matrix.n, sim_matrix.den * RatioDen
                    * ((sim_matrix.m - 1) * (sim_matrix.n - 1))
                    * ((sim_matrix.m - 1) * (sim_matrix.n - 1)),
           [i \in 0 .. sim_matrix.m - 1 |-> [j \in 0 .. sim_matrix.n - 1 |->
                sim_matrix.a[i][j]
                    * DistortionMaskNum(sim_matrix.m, sim_matrix.n, ratio, i, j)]])

apply_distortion(sim_matrix, ratio) ==
    IF (sim_matrix.m < 2 \/ sim_matrix.n < 2) \/ ratio = 0
    THEN sim_matrix
    ELSE Matrix(sim_matrix.m, sim_matrix.n, sim_matrix.den * RatioDen
                    * ((sim_matrix.m - 1) * (sim_matrix.n - 1))
                    * ((sim_matrix.m - 1) * (sim_matrix.n - 1)),
           [i \in 0 .. sim_matrix.m - 1 |-> [j \in 0 .. sim_matrix.n - 1 |->
                sim_matrix.a[i][j]
                    * DistortionMaskNum(sim_matrix.m, sim_matrix.n, ratio, i, j)]])

---------------------------------------------------------------------------
(* get_max_weight_match *)

\* csr_matrix(sim) stores the non-zero cells only, so the graph built by
\* from_biadjacency_matrix has an edge (i, j) exactly where sim[i][j] != 0
HasEdge(M, i, j) == M.a[i][j] # 0

RECURSIVE MatchingsOfRows(_, _)
\* the matchings of the rows 0..k-1: a sequence f, row i being matched to the
\* column f[i + 1] or to none (the value M.n), along edges of the graph, no
\* column being used twice
MatchingsOfRows(M, k) ==
    IF k = 0 THEN {<<>>}
    ELSE UNION {{Append(g, c) :
                    c \in {M.n} \cup {j \in Cols(M) :
                                        /\ HasEdge(M, k - 1, j)
                                        /\ \A q \in 1 .. k - 1 : g[q] # j}} :
                g \in MatchingsOfRows(M, k - 1)}

Matchings(M) == MatchingsOfRows(M, M.m)

MatchingSize(M, f) == Cardinality({i \in Rows(M) : f[i + 1] < M.n})

MatchingWeight(M, f) ==
    SumTo([i \in Rows(M) |-> IF f[i + 1] < M.n THEN M.a[i][f[i + 1]] ELSE 0], M.m)

\* nx.max_weight_matching(G, maxcardinality=True): a matching of maximum
\* weight among the matchings of maximum cardinality; which one of several
\* is not specified, so every one of them is a possible result
MaxCardinalityMaxWeight(M) ==
    LET all  == Matchings(M)
        top  == MaxOf({MatchingSize(M, f) : f \in all})
        card == {f \in all : MatchingSize(M, f) = top}
        best == MaxOf({MatchingWeight(M, f) : f \in card})
    IN  {f \in card : MatchingWeight(M, f) = best}

\* the possible values of res_matrix
get_max_weight_match(sim_matrix) ==
    {Matrix(sim_matrix.m, sim_matrix.n, 1,
           [i \in 0 .. sim_matrix.m - 1 |-> [j \in 0 .. sim_matrix.n - 1 |->
                IF f[i + 1] = j THEN 1 ELSE 0]]) :
        f \in MaxCardinalityMaxWeight(sim_matrix)}

---------------------------------------------------------------------------
(* iter_max *)

\* alpha_ratio = 0.9 = AlphaNum / AlphaDen
AlphaNum == 9

AlphaDen == 10

\* if min(m, n) <= 2: iter_max returns after the first round
SmallSide == 2

\* max_count, the default of iter_max's parameter
DefaultMaxCount == 2

RowSum(M, i) == SumTo(M.a[i], M.n)

ColSum(M, j) == SumTo([i \in Rows(M) |-> M.a[i][j]], M.m)

\* inter = forward * 0.5 + backward.transpose() * 0.5, in halves
IterMaxStart(sim_matrix) ==
    CHOOSE inter \in
        {Matrix(sim_matrix.m, sim_matrix.n, 2,
            [i \in 0 .. sim_matrix.m - 1 |-> [j \in 0 .. sim_matrix.n - 1 |->
                 fr.fwd.a[i][j] + fr.rev.a[i][j]]]) :
           fr \in {get_alignment_matrix(sim_matrix)}} : TRUE

\* mask_x = 1.0 - inter.sum(1).clip(0.0, 1.0), over the denominator of inter
MaskX(inter, i) == inter.den - Min(RowSum(inter, i), inter.den)

\* mask_y = 1.0 - inter.sum(0).clip(0.0, 1.0), over the denominator of inter
MaskY(inter, j) == inter.den - Min(ColSum(inter, j), inter.den)

\* if mask_x.sum() < 1.0 or mask_y.sum() < 1.0: both masks are zeroed
MasksZeroed(inter) ==
    \/ inter.n * SumTo([i \in Rows(inter) |-> MaskX(inter, i)], inter.m) < inter.den
    \/ inter.m * SumTo([j \in Cols(inter) |-> MaskY(inter, j)], inter.n) < inter.den

\* mask = (alpha * mask_x + alpha * mask_y).clip(0.0, 1.0), over
\* AlphaDen * den; mask *= 0.0 when the masks are zeroed
MaskOf(inter, zeroed, i, j) ==
    IF zeroed THEN 0
    ELSE Min(AlphaNum * (MaskX(inter, i) + MaskY(inter, j)), AlphaDen * inter.den)

\* mask_zeros = 1.0 - (1.0 - mask_x) * (1.0 - mask_y), over den^2;
\* mask_zeros *= 0.0 when the masks are zeroed
MaskZerosOf(inter, zeroed, i, j) ==
    IF zeroed THEN 0
    ELSE inter.den * inter.den
            - (inter.den - MaskX(inter, i)) * (inter.den - MaskY(inter, j))

\* mask[i, j] of the round that starts from inter
IterMask(inter, i, j) == MaskOf(inter, MasksZeroed(inter), i, j)

\* mask_zeros[i, j] of the round that starts from inter
IterMaskZeros(inter, i, j) == MaskZerosOf(inter, MasksZeroed(inter), i, j)

\* new_sim = sim_matrix * mask, over the denominator den * AlphaDen * inter.den
IterNewSim(sim_matrix, inter) ==
    CHOOSE new_sim \in
        {Matrix(sim_matrix.m, sim_matrix.n, sim_matrix.den * AlphaDen * inter.den,
            [i \in 0 .. sim_matrix.m - 1 |-> [j \in 0 .. sim_matrix.n - 1 |->
                 sim_matrix.a[i][j] * MaskOf(inter, zeroed, i, j)]]) :
           zeroed \in {MasksZeroed(inter)}} : TRUE

\* fwd * bac, fwd and bac being the argmax matrices of new_sim times
\* mask_zeros, over the denominator den^4
IterFwdBac(new_sim, inter) ==
    CHOOSE new_inter \in
        {Matrix(new_sim.m, new_sim.n, inter.den * inter.den * inter.den * inter.den,
            [i \in 0 .. new_sim.m - 1 |-> [j \in 0 .. new_sim.n - 1 |->
                 (fr.fwd.a[i][j] * MaskZerosOf(inter, zeroed, i, j))
                     * (fr.rev.a[i][j] * MaskZerosOf(inter, zeroed, i, j))]]) :
           fr \in {get_alignment_matrix(new_sim)},
           zeroed \in {MasksZeroed(inter)}} : TRUE

\* new_inter of one round: new_sim is computed, then fwd * bac from it
IterNewInter(sim_matrix, inter) ==
    CHOOSE new_inter \in {IterFwdBac(new_sim, inter) :
                             new_sim \in {IterNewSim(sim_matrix, inter)}} : TRUE

\* np.array_equal(inter + new_inter, inter)
IterFixedPoint(new_inter) ==
    \A i \in Rows(new_inter) : \A j \in Cols(new_inter) : new_inter.a[i][j] = 0

\* inter = new_inter: the round's matches replace the accumulated ones
IterOverwrite(inter, new_inter) ==
    Matrix(inter.m, inter.n, new_inter.den,
           [i \in 0 .. inter.m - 1 |-> [j \in 0 .. inter.n - 1 |-> new_inter.a[i][j]]])

\* inter = inter + new_inter, brought to the denominator den^4
IterAdd(inter, new_inter) ==
    Matrix(inter.m, inter.n, new_inter.den,
           [i \in 0 .. inter.m - 1 |-> [j \in 0 .. inter.n - 1 |->
                inter.a[i][j] * (inter.den * inter.den * inter.den)
                    + new_inter.a[i][j]]])

\* while count <= max_count: one round beyond the budget
WhileCountUpTo(count, max_count) == count <= max_count

\* while count < max_count
WhileCount(count, max_count) == count < max_count

RECURSIVE IterMaxLoop(_, _, _, _)
\* while count < max_count: ... ; return inter
IterMaxLoop(sim_matrix, inter, count, max_count) ==
    IF ~WhileCount(count, max_count) THEN inter
    ELSE LET new_inter == IterNewInter(sim_matrix, inter)
         IN  IF IterFixedPoint(new_inter) THEN inter
             ELSE IterMaxLoop(sim_matrix, IterAdd(inter, new_inter), count + 1, max_count)

iter_max(sim_matrix, max_count) ==
    IF Min(sim_matrix.m, sim_matrix.n) <= SmallSide
    THEN IterMaxStart(sim_matrix)
    ELSE IterMaxLoop(sim_matrix, IterMaxStart(sim_matrix), 1, max_count)

---------------------------------------------------------------------------
(* Python strings: '{}-{}'.format, sorted, ' '.join, split, int *)

\* the code point of "0"
CharZero == 48

\* the code point of "-"
CharDash == 45

\* the code point of " "
CharSpace == 32

RECURSIVE FormatInt(_)
\* '{}'.format(k) for an integer k >= 0: its decimal digits
FormatInt(k) ==
    IF k < 10 THEN <<CharZero + k>>
    ELSE FormatInt(k \div 10) \o <<CharZero + (k % 10)>>

\* '{}-{}'.format(i, j)
FormatLink(i, j) == FormatInt(i) \o <<CharDash>> \o FormatInt(j)

\* s < t for two Python strings: the first differing code point decides, a
\* proper prefix is smaller
StrLess(s, t) ==
    \E k \in 1 .. Len(t) :
        /\ k <= Len(s) + 1
        /\ \A q \in 1 .. k - 1 : s[q] = t[q]
        /\ (k = Len(s) + 1 \/ s[k] < t[k])

RECURSIVE SortedStrings(_)
\* sorted(S) for a set S of distinct strings
SortedStrings(S) ==
    IF S = {} THEN <<>>
    ELSE LET lo == CHOOSE x \in S : \A y \in S : y = x \/ StrLess(x, y)
         IN  <<lo>> \o SortedStrings(S \ {lo})

RECURSIVE JoinSpace(_)
\* ' '.join(items)
JoinSpace(items) ==
    IF Len(items) = 0 THEN <<>>
    ELSE IF Len(items) = 1 THEN items[1]
    ELSE items[1] \o <<CharSpace>> \o JoinSpace(Tail(items))

RECURSIVE SplitAt(_, _, _, _)
\* the pieces of s between occurrences of the separator, scanning from
\* position k with the piece cur read so far
SplitAt(s, sep, k, cur) ==
    IF k > Len(s) THEN <<cur>>
    ELSE IF s[k] = sep THEN <<cur>> \o SplitAt(s, sep, k + 1, <<>>)
    ELSE SplitAt(s, sep, k + 1, Append(cur, s[k]))

\* s.split(): the maximal runs of non-space characters (none for "")
SplitWords(s) == SelectSeq(SplitAt(s, CharSpace, 1, <<>>), LAMBDA w : Len(w) > 0)

RECURSIVE ParseInt(_)
\* int(s) for a string of decimal digits
ParseInt(s) ==
    IF Len(s) = 0 THEN 0
    ELSE 10 * ParseInt(SubSeq(s, 1, Len(s) - 1)) + (s[Len(s)] - CharZero)

\* (int(x.split('-')[0]), int(x.split('-')[1]))
LinkKey(x) ==
    LET parts == SplitAt(x, CharDash, 1, <<>>)
    IN  <<ParseInt(parts[1]), ParseInt(parts[2])>>

\* the order of the tuples (a, b) of integers
PairLess(p, q) == p[1] < q[1] \/ (p[1] = q[1] /\ p[2] < q[2])

---------------------------------------------------------------------------
(* Tokenized sentences *)

\* A tokenized sentence is the sequence of its words, each word given by the
\* number of sub-word tokens the tokenizer splits it into.

RECURSIVE b2w_map(_)
\* [i for i, w in enumerate(sent) for _ in w]: the word index of each sub-word
b2w_map(sent) ==
    IF Len(sent) = 0 THEN <<>>
    ELSE b2w_map(SubSeq(sent, 1, Len(sent) - 1))
            \o [k \in 1 .. sent[Len(sent)] |-> Len(sent) - 1]

\* len(sent_pair[k]): the number of sub-words of a sentence
NumSubwords(sent) == Len(b2w_map(sent))

\* len(sentence.split())
NumWords(sent) == Len(sent)

---------------------------------------------------------------------------
(* Inputs: configurations, sentences, and what the embedding provider gives *)

\* all_matching_methods of __init__
all_matching_methods ==
    [a |-> "inter", m |-> "mwmf", i |-> "itermax", f |-> "fwd", r |-> "rev"]

\* the matching_methods arguments tried: the five keys and an unknown one
MethodKeys == {"a", "m", "i", "f", "r", "x"}

\* the token_type arguments tried: the two the code knows and another one
TokenTypes == {"word", "bpe", "char"}

\* batch_size, the default of the entry points' parameter
DefaultBatchSize == 100

\* the sentence of LongWords words, each a single sub-word
LongSentence == [k \in 1 .. LongWords |-> 1]

\* the sentence pairs tried by the entry points: an empty side, a two-word
\* pair in which one word is split in two sub-words, and the long sentence
PairShapes ==
    {<< <<>>, <<2, 1>> >>, << <<2, 1>>, <<>> >>, << <<2, 1>>, <<1, 2>> >>,
     << LongSentence, <<1>> >>}

\* the m x n matrix with value bg in every cell but (x, y), which holds v
OneOff(m, n, bg, x, y, v) ==
    Matrix(m, n, MaxSim,
           [i \in 0 .. m - 1 |-> [j \in 0 .. n - 1 |->
                IF i = x /\ j = y THEN v ELSE bg]])

\* every m x n similarity matrix with numerators in 0..MaxSim
AllSims(m, n) ==
    {[m |-> m, n |-> n, den |-> MaxSim, a |-> f] :
        f \in [0 .. m - 1 -> [0 .. n - 1 -> 0 .. MaxSim]]}

\* the similarity matrices the entry points are run on: a flat matrix, the
\* flat matrix with one cell raised to the top value, and the flat matrix
\* with its first cell lowered to zero
FlatSims(m, n) ==
    {OneOff(m, n, 1, x, y, MaxSim) : x \in 0 .. m - 1, y \in 0 .. n - 1}
        \cup {OneOff(m, n, 1, 0, 0, 1), OneOff(m, n, 1, 0, 0, 0)}

---------------------------------------------------------------------------
(* align_sentences: the body of the loop over the sentences of a batch *)

\* the cells the links are read from: all_mats[ext][i, j] > 0
MatchedCells(mat) ==
    {c \in Rows(mat) \X Cols(mat) : mat.a[c[1]][c[2]] > 0}

\* the keys of raw_scores
RawLinks(mat) == {FormatLink(c[1], c[2]) : c \in MatchedCells(mat)}

\* the keys of b2w_scores, which are filled only if token_type == "bpe"
B2wLinks(mat, pair, tt) ==
    IF tt = "bpe"
    THEN {FormatLink(b2w_map(pair[1])[c[1] + 1], b2w_map(pair[2])[c[2] + 1]) :
            c \in MatchedCells(mat)}
    ELSE {}

\* the string appended to aligns
AlignmentString(mat, pair, tt) ==
    IF tt = "word"
    THEN JoinSpace(SortedStrings(RawLinks(mat)))
    ELSE JoinSpace(SortedStrings(B2wLinks(mat, pair, tt)))

\* len(vectors[k]): words if convert_to_words, sub-words otherwise
NumUnits(sent, tt) == IF tt = "word" THEN NumWords(sent) ELSE NumSubwords(sent)

\* get_similarity on the averaged word vectors: with no word on a side the
\* array of that side is 1-dimensional and cosine_similarity raises ValueError
GetSimilarityRaises(pair, tt) ==
    tt = "word" /\ (NumWords(pair[1]) = 0 \/ NumWords(pair[2]) = 0)

\* all_mats once filled; mw is the result of get_max_weight_match
AllMats(dsim, method, mw) ==
    LET fr == get_alignment_matrix(dsim)
        base == [fwd |-> fr.fwd, rev |-> fr.rev, inter |-> Intersection(fr)]
    IN  IF method = "mwmf" THEN base @@ [mwmf |-> mw]
        ELSE IF method = "itermax"
             THEN base @@ [itermax |-> iter_max(dsim, DefaultMaxCount)]
        ELSE base

---------------------------------------------------------------------------
(* The object and the call of align_sentences *)

Init ==
    /\ pc = "new"
    /\ token_type = "none"
    /\ matching_methods = "none"
    /\ distortion = 0
    /\ source_len = 0
    /\ target_len = 0
    /\ words_tokens = <<>>
    /\ embeds = <<>>
    /\ sent_id = 0
    /\ vectors = NoMatrix
    /\ sim = NoMatrix
    /\ all_mats = <<>>
    /\ aligns = <<>>
    /\ result = "none"
    /\ alignmatrix = NoMatrix
    /\ cur_inter = NoMatrix
    /\ cur_count = 0
    /\ arg_max_count = 0
    /\ pass = 0
    /\ s2t_aligns = <<>>
    /\ t2s_aligns = <<>>

\* Simalign.__init__ with a known matching_methods key
Construct(tt, key, ratio) ==
    /\ pc = "new"
    /\ key \in DOMAIN all_matching_methods
    /\ token_type' = tt
    /\ distortion' = ratio
    /\ matching_methods' = all_matching_methods[key]
    /\ pc' = "idle"
    /\ UNCHANGED <<corpusVars, sent_id, sim, all_mats, aligns, result, vectors, spanVars>>

\* Simalign.__init__ with an unknown key: all_matching_methods[key] raises
ConstructRaises(tt, key, ratio) ==
    /\ pc = "new"
    /\ key \notin DOMAIN all_matching_methods
    /\ pc' = "raised"
    /\ result' = "KeyError"
    /\ UNCHANGED <<objVars, corpusVars, sent_id, sim, all_mats, aligns, vectors, spanVars>>

\* align_sentences is called with ns source and nt target sentences
CallAlignSentences(ns, nt) ==
    /\ pc = "idle"
    /\ source_len' = ns
    /\ target_len' = nt
    /\ words_tokens' = <<>>
    /\ embeds' = <<>>
    /\ sent_id' = 0
    /\ pc' = "tokenize"
    /\ UNCHANGED <<objVars, sim, all_mats, aligns, result, vectors, spanVars>>

\* one round of the loop "for sent_id in range(len(source_sentences))" that
\* tokenizes source_sentences[sent_id] and target_sentences[sent_id]
Tokenize(pair) ==
    /\ pc = "tokenize"
    /\ sent_id < source_len
    /\ sent_id < target_len
    /\ words_tokens' = Append(words_tokens, pair)
    /\ embeds' = embeds
    /\ sent_id' = sent_id + 1
    /\ UNCHANGED <<objVars, source_len, target_len, pc, sim, all_mats, aligns, result, vectors, spanVars>>

\* the same round when target_sentences has no element sent_id: IndexError
TokenizeRaises ==
    /\ pc = "tokenize"
    /\ sent_id < source_len
    /\ sent_id >= target_len
    /\ pc' = "raised"
    /\ result' = "IndexError"
    /\ UNCHANGED <<objVars, corpusVars, sent_id, sim, all_mats, aligns, vectors, spanVars>>

\* the tokenizing loop is over: the sub-word lists and maps are derived, ds
\* and the data loader are built, aligns = []
StartBatches ==
    /\ pc = "tokenize"
    /\ sent_id = source_len
    /\ sent_id' = 0
    /\ aligns' = <<>>
    /\ pc' = "batch"
    /\ UNCHANGED <<objVars, corpusVars, sim, all_mats, result, vectors, spanVars>>

\* the data loader yields the next batch and the provider embeds it
EmbedBatch ==
    /\ pc = "batch"
    /\ sent_id < source_len
    /\ pc' = "pair"
    /\ UNCHANGED <<objVars, corpusVars, sent_id, sim, all_mats, aligns, result, vectors, spanVars>>

\* where the loops stand after the pair sent_id: in the same batch, at the
\* next batch
AfterPair(k) == IF (k + 1) % DefaultBatchSize = 0 \/ k + 1 = source_len THEN "batch" ELSE "pair"

\* the body of the loop over the batch for the pair sent_id, psim being the
\* similarity of the provider's vectors and mw the result of the matching
AlignPair(psim, mw) ==
    /\ pc = "pair"
    /\ ~GetSimilarityRaises(words_tokens[sent_id + 1], token_type)
    /\ ~ArgmaxRaises(psim)
    /\ vectors' = psim
    /\ sim' = apply_distortion(psim, distortion)
    /\ all_mats' = AllMats(sim', matching_methods, mw)
    /\ aligns' = Append(aligns,
                        AlignmentString(all_mats'[matching_methods],
                                        words_tokens[sent_id + 1], token_type))
    /\ sent_id' = sent_id + 1
    /\ pc' = AfterPair(sent_id)
    /\ UNCHANGED <<objVars, corpusVars, result, spanVars>>

\* the same body when get_similarity or get_alignment_matrix raises
AlignPairRaises(psim) ==
    /\ pc = "pair"
    /\ GetSimilarityRaises(words_tokens[sent_id + 1], token_type) \/ ArgmaxRaises(psim)
    /\ vectors' = psim
    /\ sim' = IF GetSimilarityRaises(words_tokens[sent_id + 1], token_type)
              THEN sim ELSE apply_distortion(psim, distortion)
    /\ pc' = "raised"
    /\ result' = "ValueError"
    /\ UNCHANGED <<objVars, corpusVars, sent_id, all_mats, aligns, spanVars>>

\* return aligns
ReturnAligns ==
    /\ pc = "batch"
    /\ sent_id = source_len
    /\ pc' = "returned"
    /\ result' = "aligns"
    /\ UNCHANGED <<objVars, corpusVars, sent_id, sim, all_mats, aligns, vectors, spanVars>>

\* the results get_max_weight_match may give, when the method asks for it
MatchResults(dsim, method) ==
    IF method = "mwmf" THEN get_max_weight_match(dsim) ELSE {NoMatrix}

\* the matrices whose diagonal cell is the strict maximum of its row; the
\* columns are free
RowDominantSims(m, n) ==
    {S \in AllSims(m, n) :
        \A i \in Rows(S) : \A k \in Cols(S) : k # i => S.a[i][k] < S.a[i][Min(i, n - 1)]}

\* the m x n similarity matrices of a family of inputs
SimsOf(family, m, n) ==
    IF family = "rows" THEN RowDominantSims(m, n) ELSE FlatSims(m, n)

\* the steps of an object on which align_sentences is called: the
\* configurations, the list lengths, the sentence pairs and the family of the
\* similarity matrices of the provider's vectors are the inputs tried
AlignSentencesNext(types, keys, ratios, counts, pairs, family) ==
    \/ \E tt \in types, key \in keys, ratio \in ratios :
          Construct(tt, key, ratio) \/ ConstructRaises(tt, key, ratio)
    \/ \E ns \in counts, nt \in counts : CallAlignSentences(ns, nt)
    \/ \E pair \in pairs : Tokenize(pair)
    \/ TokenizeRaises
    \/ StartBatches
    \/ EmbedBatch
    \/ /\ pc = "pair"
       /\ \E psim \in SimsOf(family, NumUnits(words_tokens[sent_id + 1][1], token_type),
                                   NumUnits(words_tokens[sent_id + 1][2], token_type)) :
          \/ \E mw \in MatchResults(apply_distortion(psim, distortion), matching_methods) :
                AlignPair(psim, mw)
          \/ AlignPairRaises(psim)
    \/ ReturnAligns

Next ==
    AlignSentencesNext(TokenTypes, MethodKeys, {0, RatioDen}, 0 .. MaxSents,
                       PairShapes, "flat")

Spec == Init /\ [][Next]_vars

---------------------------------------------------------------------------
(* Claims about align_sentences, checked under Spec *)

\* the links of an alignment string, as pairs of integers, in the order the
\* string lists them
LinksOf(str) ==
    LET toks == SplitWords(str)
    IN  [k \in 1 .. Len(toks) |-> LinkKey(toks[k])]

\* a call of an entry point is under way or over
Called == pc \in {"tokenize", "batch", "pair", "returned"} \/ (pc = "raised" /\ result # "KeyError")

\* C1: every alignment string that align_sentences builds lists its links in
\* ascending order of (source_index, target_index) compared as integers.
C1_LinksAscendingAsIntegers ==
    \A k \in 1 .. Len(aligns) :
        \A p, q \in 1 .. Len(LinksOf(aligns[k])) :
            p < q => PairLess(LinksOf(aligns[k])[p], LinksOf(aligns[k])[q])

\* C3: when the two sentence lists differ in length, the call is rejected
\* before any per-sentence work: no pair is ever tokenized, embedded or
\* aligned, and no list is returned.
C3_LengthMismatchRejectedEagerly ==
    (Called /\ source_len # target_len) =>
        /\ Len(words_tokens) = 0
        /\ pc \notin {"batch", "pair", "returned"}

\* a sentence of the pair has no word
HasEmptySide(pair) == NumWords(pair[1]) = 0 \/ NumWords(pair[2]) = 0

\* C4: a pair with a zero-length sentence gets the empty alignment string and
\* raises no error, so that the loop goes on to the other pairs.
C4_EmptySentenceGivesEmptyString ==
    /\ \A k \in 1 .. Len(aligns) : HasEmptySide(words_tokens[k]) => aligns[k] = <<>>
    /\ (pc = "raised" /\ result = "ValueError") => ~HasEmptySide(words_tokens[sent_id + 1])

\* C5: with a token_type other than "word" and "bpe", align_sentences never
\* returns alignment strings computed under that granularity.
C5_UnsupportedGranularityRejected ==
    (pc = "returned" /\ Len(aligns) > 0) => token_type \in {"word", "bpe"}

---------------------------------------------------------------------------
(* align_sentences at word granularity on one pair of equally long          *)
(* sentences, over the similarity matrices with a row-dominant diagonal     *)

\* the sentence of k words, each a single sub-word
PlainSentence(k) == [q \in 1 .. k |-> 1]

\* the pairs of sentences of k words each, k up to the first side length
\* past SmallSide
SquarePairs == {<<PlainSentence(k), PlainSentence(k)>> : k \in 0 .. SmallSide + 1}

NextDiag ==
    AlignSentencesNext({"word"}, {"a", "x"}, Ratios, 0 .. 1, SquarePairs, "rows")

SpecDiag == Init /\ [][NextDiag]_vars

\* every diagonal cell is strictly greater than every other cell of its row
\* and of its column
DiagonalDominates(S) ==
    /\ S.m = S.n
    /\ \A i \in Rows(S) : \A k \in Cols(S) :
          k # i => (S.a[i][k] < S.a[i][i] /\ S.a[k][i] < S.a[i][i])

\* the pair whose string was appended last is the pair of vectors
LastPairAligned ==
    /\ pc \in {"batch", "pair", "returned"}
    /\ sent_id >= 1
    /\ Len(aligns) = sent_id

\* C8: at word granularity with the intersection method and any distortion
\* ratio in [0,1], a pair of k words a side that align_sentences has aligned
\* and whose similarity matrix has a dominating diagonal gets exactly the
\* links 0-0, 1-1, ..., (k-1)-(k-1).  (A pair of empty sentences is never
\* aligned: AlignPairRaises.)
C8_DiagonalDominanceGivesDiagonalLinks ==
    (/\ LastPairAligned
     /\ token_type = "word"
     /\ matching_methods = "inter"
     /\ DiagonalDominates(vectors))
        => LinksOf(aligns[Len(aligns)]) = [q \in 1 .. vectors.m |-> <<q - 1, q - 1>>]

\* the string "0-0 1-1 2-2"
Diagonal3String ==
    <<CharZero, CharDash, CharZero, CharSpace,
      CharZero + 1, CharDash, CharZero + 1, CharSpace,
      CharZero + 2, CharDash, CharZero + 2>>

\* C8 witness: three words a side, a positive distortion, a dominating
\* diagonal of unequal cells beside a positive cell, and the returned string
\* "0-0 1-1 2-2"
C8_Witness ==
    /\ pc = "returned"
    /\ distortion > 0
    /\ vectors.m = 3
    /\ DiagonalDominates(vectors)
    /\ vectors.a[0][0] # vectors.a[1][1]
    /\ vectors.a[1][2] > 0
    /\ aligns = <<Diagonal3String>>

---------------------------------------------------------------------------
(* get_alignment_matrix and get_max_weight_match as functions of the        *)
(* similarity matrix, over every matrix of up to SmallSide + 1 rows and     *)
(* columns                                                                  *)

MatrixSides == 0 .. SmallSide + 1

InitMatch ==
    /\ pc = "matrix"
    /\ \E m \in MatrixSides, n \in MatrixSides : sim \in AllSims(m, n)
    /\ token_type = "none"
    /\ matching_methods = "none"
    /\ distortion = 0
    /\ source_len = 0
    /\ target_len = 0
    /\ words_tokens = <<>>
    /\ embeds = <<>>
    /\ sent_id = 0
    /\ vectors = NoMatrix
    /\ all_mats = <<>>
    /\ aligns = <<>>
    /\ result = "none"
    /\ alignmatrix = NoMatrix
    /\ cur_inter = NoMatrix
    /\ cur_count = 0
    /\ arg_max_count = 0
    /\ pass = 0
    /\ s2t_aligns = <<>>
    /\ t2s_aligns = <<>>

\* forward, reverse = get_alignment_matrix(sim)
ApplyGetAlignmentMatrix ==
    /\ pc = "matrix"
    /\ ~ArgmaxRaises(sim)
    /\ all_mats' = get_alignment_matrix(sim)
    /\ pc' = "argmax"
    /\ UNCHANGED <<objVars, corpusVars, sent_id, vectors, sim, aligns, result, spanVars>>

\* get_alignment_matrix on a matrix without rows or without columns:
\* ValueError from argmax
ApplyGetAlignmentMatrixRaises ==
    /\ pc = "matrix"
    /\ ArgmaxRaises(sim)
    /\ pc' = "raised"
    /\ result' = "ValueError"
    /\ UNCHANGED <<objVars, corpusVars, sent_id, vectors, sim, all_mats, aligns, spanVars>>

\* get_max_weight_match(sim) on a matrix with rows and columns
ApplyGetMaxWeightMatch ==
    /\ pc = "matrix"
    /\ sim.m >= 1
    /\ sim.n >= 1
    /\ \E res_matrix \in get_max_weight_match(sim) :
          all_mats' = [mwmf |-> res_matrix]
    /\ pc' = "matched"
    /\ UNCHANGED <<objVars, corpusVars, sent_id, vectors, sim, aligns, result, spanVars>>

NextMatch ==
    \/ ApplyGetAlignmentMatrix
    \/ ApplyGetAlignmentMatrixRaises
    \/ ApplyGetMaxWeightMatch

SpecMatch == InitMatch /\ [][NextMatch]_vars

\* the sum of S[i][j] over the cells with A[i][j] = 1
MatchedWeight(S, A) ==
    SumTo([i \in Rows(S) |->
              SumTo([j \in Cols(S) |-> S.a[i][j] * A.a[i][j]], S.n)], S.m)

\* the matchings of the complete bipartite graph on the rows and columns of
\* S: row i goes to column f[i], or to none (the value S.n)
CompleteMatchings(S) ==
    {f \in [Rows(S) -> 0 .. S.n] :
        \A i \in Rows(S) : \A k \in Rows(S) :
            (i # k /\ f[i] = f[k]) => f[i] = S.n}

CompleteWeight(S, f) ==
    SumTo([i \in Rows(S) |-> IF f[i] < S.n THEN S.a[i][f[i]] ELSE 0], S.m)

\* A is binary with at most one 1 in each row and in each column
IsMatchingMatrix(A) ==
    /\ \A i \in Rows(A) : \A j \in Cols(A) : A.a[i][j] \in {0, 1}
    /\ \A i \in Rows(A) : Cardinality({j \in Cols(A) : A.a[i][j] = 1}) <= 1
    /\ \A j \in Cols(A) : Cardinality({i \in Rows(A) : A.a[i][j] = 1}) <= 1

\* C9: get_max_weight_match returns a binary matrix with at most one 1 in
\* each row and in each column whose matched weight is the maximum over all
\* matchings of the complete bipartite graph with the weights S[i][j], zero
\* entries included.
C9_MatchedWeightIsMaximal ==
    pc = "matched" =>
        /\ IsMatchingMatrix(all_mats.mwmf)
        /\ \A f \in CompleteMatchings(sim) :
              CompleteWeight(sim, f) <= MatchedWeight(sim, all_mats.mwmf)

\* C10: for a matrix with m >= 1 rows and n >= 1 columns the forward matrix
\* has exactly one 1 in each row, at the lowest column index attaining the
\* row's maximum, the backward matrix exactly one 1 in each column, at the
\* lowest row index attaining the column's maximum, and all other entries
\* are 0.
C10_OneHotAtLowestMaximum ==
    (pc = "argmax" /\ sim.m >= 1 /\ sim.n >= 1) =>
        /\ \A i \in Rows(sim) : \E j \in Cols(sim) :
              /\ \A k \in Cols(sim) : sim.a[i][k] <= sim.a[i][j]
              /\ \A k \in 0 .. j - 1 : sim.a[i][k] < sim.a[i][j]
              /\ all_mats.fwd.a[i][j] = 1
              /\ \A k \in Cols(sim) \ {j} : all_mats.fwd.a[i][k] = 0
        /\ \A j \in Cols(sim) : \E i \in Rows(sim) :
              /\ \A k \in Rows(sim) : sim.a[k][j] <= sim.a[i][j]
              /\ \A k \in 0 .. i - 1 : sim.a[k][j] < sim.a[i][j]
              /\ all_mats.rev.a[i][j] = 1
              /\ \A k \in Rows(sim) \ {i} : all_mats.rev.a[k][j] = 0

\* C10 witness: a row whose maximum is attained twice, the 1 at the lower of
\* the two columns, and a column whose maximum is attained twice, the 1 at
\* the lower of the two rows, neither at index 0
C10_Witness ==
    /\ pc = "argmax"
    /\ sim.m = 3
    /\ sim.n = 3
    /\ sim.a[0][0] < sim.a[0][1]
    /\ sim.a[0][1] = sim.a[0][2]
    /\ all_mats.fwd.a[0] = [j \in Cols(sim) |-> IF j = 1 THEN 1 ELSE 0]
    /\ sim.a[0][2] < sim.a[1][2]
    /\ sim.a[1][2] = sim.a[2][2]
    /\ all_mats.rev.a[1][2] = 1
    /\ all_mats.rev.a[2][2] = 0

---------------------------------------------------------------------------
(* get_span_index and get_alignmatrix_iter *)

\* max_d, the default of get_span_index's parameter
MaxD == 3

\* [sent_idx[i: i + d] for i in range(len(sent_idx)) if i + d <= len(sent_idx)]
\* for a sentence of w words
SpansOfLength(w, d) ==
    [i \in 1 .. Max(w - d + 1, 0) |-> [k \in 1 .. d |-> (i - 1) + (k - 1)]]

RECURSIVE SpansUpTo(_, _)
\* the spans of the lengths 1..d, shorter spans first
SpansUpTo(w, d) ==
    IF d = 0 THEN <<>> ELSE SpansUpTo(w, d - 1) \o SpansOfLength(w, d)

\* get_span_index for one sentence: the list of its spans
get_span_index(sent) == SpansUpTo(NumWords(sent), MaxD)

\* the m x n matrix of zeros
Zeros(m, n) == Matrix(m, n, 1, [i \in 0 .. m - 1 |-> [j \in 0 .. n - 1 |-> 0]])

\* a cell is NaN when it is 0 / 0
HasNaN(M) ==
    M.den = 0 /\ {c \in Rows(M) \X Cols(M) : M.a[c[1]][c[2]] = 0} # {}

\* np.max(sim_matrix) >= 0: the loop would go on over a matrix of zeros
NpMaxIsNotNegative(M) ==
    /\ ~HasNaN(M)
    /\ {c \in Rows(M) \X Cols(M) : M.a[c[1]][c[2]] >= 0} # {}

\* np.max(sim_matrix) > 0 on a matrix with cells: np.max is NaN as soon as a
\* cell is, and NaN > 0 is False
NpMaxIsPositive(M) ==
    /\ ~HasNaN(M)
    /\ {c \in Rows(M) \X Cols(M) : M.a[c[1]][c[2]] > 0} # {}

\* np.max(sim_matrix) without NaN cells
MaxCell(M) == MaxOf({M.a[i][j] : i \in Rows(M), j \in Cols(M)})

\* x[0], y[0] of np.where(sim_matrix == np.max(sim_matrix)): the first cell
\* in row-major order that holds the maximum
FirstMaxCell(M) ==
    LET top == MaxCell(M)
        x == CHOOSE i \in Rows(M) :
                /\ \E j \in Cols(M) : M.a[i][j] = top
                /\ \A k \in 0 .. i - 1 : \A j \in Cols(M) : M.a[k][j] # top
        y == CHOOSE j \in Cols(M) :
                /\ M.a[x][j] = top
                /\ \A k \in 0 .. j - 1 : M.a[x][k] # top
    IN  <<x, y>>

\* only the committed span itself; the conflict-freedom theorem does not
\* survive it
OwnSpanOnly(spans, x) == {x}

\* the span_id with e in spans[span_id] for some e in spans[x]
OverlappingSpans(spans, x) ==
    {span_id \in 0 .. Len(spans) - 1 :
        \E e \in Range(spans[x + 1]) : e \in Range(spans[span_id + 1])}

\* every cell set to 0 by the round: the loop would stop after one round
ZeroedAll(M, src_spans, tgt_spans, x, y) ==
    Matrix(M.m, M.n, M.den, [i \in 0 .. M.m - 1 |-> [j \in 0 .. M.n - 1 |-> 0]])

\* sim_matrix after one round of the loop that commits the cell (x, y)
ZeroedAround(M, src_spans, tgt_spans, x, y) ==
    CHOOSE zeroed \in
        {Matrix(M.m, M.n, M.den,
           [i \in 0 .. M.m - 1 |-> [j \in 0 .. M.n - 1 |->
                IF (i = x /\ j = y) \/ i \in rows \/ j \in cols
                THEN 0 ELSE M.a[i][j]]]) :
         rows \in {OverlappingSpans(src_spans, x)},
         cols \in {OverlappingSpans(tgt_spans, y)}} : TRUE

\* the sentence pair get_alignmatrix_iter works on
PairAtHand == words_tokens[sent_id + 1]

\* one round of the while loop of get_alignmatrix_iter, on sim in place
GreedyStep ==
    /\ pc = "greedy"
    /\ sim.m > 0
    /\ sim.n > 0
    /\ NpMaxIsPositive(sim)
    /\ \E c \in {FirstMaxCell(sim)} :
           /\ alignmatrix' = [alignmatrix EXCEPT !.a[c[1]][c[2]] = 1]
           /\ sim' = ZeroedAround(sim, get_span_index(PairAtHand[1]),
                                  get_span_index(PairAtHand[2]), c[1], c[2])
    /\ UNCHANGED <<pc, objVars, corpusVars, sent_id, vectors, all_mats, aligns, result,
                   pass, s2t_aligns, t2s_aligns, roundVars>>

\* the loop condition fails: return alignmatrix
GreedyReturn ==
    /\ pc = "greedy"
    /\ sim.m > 0
    /\ sim.n > 0
    /\ ~NpMaxIsPositive(sim)
    /\ pc' = "greedy_done"
    /\ UNCHANGED <<objVars, corpusVars, sent_id, vectors, sim, all_mats, aligns, result,
                   spanVars>>

\* np.max of a matrix without cells raises ValueError
GreedyRaises ==
    /\ pc = "greedy"
    /\ (sim.m = 0 \/ sim.n = 0)
    /\ pc' = "raised"
    /\ result' = "ValueError"
    /\ UNCHANGED <<objVars, corpusVars, sent_id, vectors, sim, all_mats, aligns, spanVars>>

---------------------------------------------------------------------------
(* get_alignmatrix_iter as a function of the similarity matrix, over every  *)
(* matrix on the spans of a pair of short sentences                         *)

\* the numbers of words of the two sentences
WordCounts == {c \in (0 .. MaxD) \X (0 .. MaxD) : c[1] + c[2] <= MaxD + 1}

NumSpans(w) == Len(SpansUpTo(w, MaxD))

InitGreedy ==
    /\ pc = "greedy"
    /\ \E c \in WordCounts :
          /\ words_tokens = << <<PlainSentence(c[1]), PlainSentence(c[2])>> >>
          /\ sim \in AllSims(NumSpans(c[1]), NumSpans(c[2]))
    /\ embeds = <<>>
    /\ vectors = sim
    /\ alignmatrix = Zeros(sim.m, sim.n)
    /\ cur_inter = NoMatrix
    /\ cur_count = 0
    /\ arg_max_count = 0
    /\ token_type = "none"
    /\ matching_methods = "none"
    /\ distortion = 0
    /\ source_len = 0
    /\ target_len = 0
    /\ sent_id = 0
    /\ all_mats = <<>>
    /\ aligns = <<>>
    /\ result = "none"
    /\ pass = 0
    /\ s2t_aligns = <<>>
    /\ t2s_aligns = <<>>

NextGreedy ==
    \/ GreedyStep
    \/ GreedyReturn
    \/ GreedyRaises

SpecGreedy == InitGreedy /\ [][NextGreedy]_vars

\* the cells set to 1 in alignmatrix
Committed == {c \in Rows(alignmatrix) \X Cols(alignmatrix) : alignmatrix.a[c[1]][c[2]] = 1}

Disjoint(s, t) == Range(s) \cap Range(t) = {}

\* C7: any two distinct span pairs committed by get_alignmatrix_iter have
\* disjoint source spans and disjoint target spans, whatever the similarity
\* matrix and with ties for the maximum; it holds of alignmatrix after every
\* round of the loop and of the matrix returned.
C7_CommittedSpanPairsAreDisjoint ==
    pc \in {"greedy", "greedy_done"} =>
        \A c \in Committed : \A d \in Committed :
            c # d =>
                /\ Disjoint(get_span_index(PairAtHand[1])[c[1] + 1],
                            get_span_index(PairAtHand[1])[d[1] + 1])
                /\ Disjoint(get_span_index(PairAtHand[2])[c[2] + 1],
                            get_span_index(PairAtHand[2])[d[2] + 1])

\* C7 witness: on two words a side (spans [0], [1], [0, 1]) the maximum is
\* held by the cells ([0], [0]), ([1], [1]) and ([0, 1], [0, 1]) alike, and
\* the matrix returned commits the first two
C7_Witness ==
    /\ pc = "greedy_done"
    /\ NumWords(PairAtHand[1]) = 2
    /\ NumWords(PairAtHand[2]) = 2
    /\ vectors.a[0][0] = MaxSim
    /\ vectors.a[1][1] = MaxSim
    /\ vectors.a[2][2] = MaxSim
    /\ Committed = {<<0, 0>>, <<1, 1>>}

---------------------------------------------------------------------------
(* align_spans_iter *)

\* the smallest element of a non-empty set of integers
MinOf(S) == CHOOSE x \in S : \A y \in S : x <= y

\* get_similarity_norm on the cosine matrix data, which has cells:
\* (data - np.min(data)) / _range, a cell being
\* (a - min) / den over (max - min) / den; with _range = 0 every cell is 0 / 0
get_similarity_norm(data) ==
    LET lo == MinOf({data.a[i][j] : i \in Rows(data), j \in Cols(data)})
        hi == MaxCell(data)
    IN  Matrix(data.m, data.n, hi - lo,
           [i \in 0 .. data.m - 1 |-> [j \in 0 .. data.n - 1 |-> data.a[i][j] - lo]])

RECURSIVE SortedLinks(_)
\* sorted(S, key=lambda x: (int(x.split('-')[0]), int(x.split('-')[1]))) for
\* a set S of link strings with distinct keys
SortedLinks(S) ==
    IF S = {} THEN <<>>
    ELSE LET lo == CHOOSE x \in S :
                      \A y \in S : y = x \/ PairLess(LinkKey(x), LinkKey(y))
         IN  <<lo>> \o SortedLinks(S \ {lo})

\* the keys of span_scores: "x-y" for x in the source span and y in the
\* target span of a cell with alignment_matrix[i, j] > 0
SpanLinks(mat, src_spans, tgt_spans) ==
    UNION {{FormatLink(x, y) : x \in Range(src_spans[c[1] + 1]),
                               y \in Range(tgt_spans[c[2] + 1])} :
           c \in MatchedCells(mat)}

\* the sentence pairs tried: one word a side, two words against one, two
\* words a side, and a side without words
SpanPairShapes ==
    {<<PlainSentence(1), PlainSentence(1)>>, <<PlainSentence(2), PlainSentence(1)>>,
     <<PlainSentence(2), PlainSentence(2)>>, <<PlainSentence(0), PlainSentence(1)>>}

\* align_spans_iter is called with ns source and nt target sentences
CallAlignSpansIter(ns, nt) ==
    /\ pc = "idle"
    /\ source_len' = ns
    /\ target_len' = nt
    /\ words_tokens' = <<>>
    /\ embeds' = <<>>
    /\ sent_id' = 0
    /\ pc' = "iter_tokenize"
    /\ UNCHANGED <<objVars, sim, all_mats, aligns, result, vectors, spanVars>>

\* one round of the tokenizing loop of align_spans_iter
IterTokenize(pair) ==
    /\ pc = "iter_tokenize"
    /\ sent_id < source_len
    /\ sent_id < target_len
    /\ words_tokens' = Append(words_tokens, pair)
    /\ embeds' = embeds
    /\ sent_id' = sent_id + 1
    /\ UNCHANGED <<objVars, source_len, target_len, pc, sim, all_mats, aligns, result,
                   vectors, spanVars>>

\* the same round when target_sentences has no element sent_id: IndexError
IterTokenizeRaises ==
    /\ pc = "iter_tokenize"
    /\ sent_id < source_len
    /\ sent_id >= target_len
    /\ pc' = "raised"
    /\ result' = "IndexError"
    /\ UNCHANGED <<objVars, corpusVars, sent_id, sim, all_mats, aligns, vectors, spanVars>>

\* the maps and the span lists are derived, the data loader is built,
\* aligns = []
IterStartBatches ==
    /\ pc = "iter_tokenize"
    /\ sent_id = source_len
    /\ sent_id' = 0
    /\ aligns' = <<>>
    /\ pc' = "iter_pair"
    /\ UNCHANGED <<objVars, corpusVars, sim, all_mats, result, vectors, spanVars>>

\* the pair sent_id: data is the cosine matrix of the span vectors, sim its
\* normalization, and get_alignmatrix_iter is entered
IterNormalize(data) ==
    /\ pc = "iter_pair"
    /\ sent_id < source_len
    /\ data.m > 0
    /\ data.n > 0
    /\ vectors' = data
    /\ sim' = get_similarity_norm(data)
    /\ alignmatrix' = Zeros(data.m, data.n)
    /\ pc' = "greedy"
    /\ UNCHANGED <<objVars, corpusVars, sent_id, all_mats, aligns, result,
                   pass, s2t_aligns, t2s_aligns, roundVars>>

\* the pair sent_id with a side without spans: cosine_similarity raises
\* ValueError on the 1-dimensional empty array
IterNormalizeRaises(data) ==
    /\ pc = "iter_pair"
    /\ sent_id < source_len
    /\ (data.m = 0 \/ data.n = 0)
    /\ vectors' = data
    /\ pc' = "raised"
    /\ result' = "ValueError"
    /\ UNCHANGED <<objVars, corpusVars, sent_id, sim, all_mats, aligns, spanVars>>

\* get_alignmatrix_iter has returned: the links of the pair are appended
IterLinks ==
    /\ pc = "greedy_done"
    /\ aligns' = Append(aligns,
                        JoinSpace(SortedLinks(SpanLinks(alignmatrix,
                                                        get_span_index(PairAtHand[1]),
                                                        get_span_index(PairAtHand[2])))))
    /\ sent_id' = sent_id + 1
    /\ pc' = "iter_pair"
    /\ UNCHANGED <<objVars, corpusVars, sim, all_mats, result, vectors, spanVars>>

\* return aligns
IterReturn ==
    /\ pc = "iter_pair"
    /\ sent_id = source_len
    /\ pc' = "returned"
    /\ result' = "aligns"
    /\ UNCHANGED <<objVars, corpusVars, sent_id, sim, all_mats, aligns, vectors, spanVars>>

\* the steps of an object on which align_spans_iter is called; a matrix
\* without cells never reaches get_alignmatrix_iter (IterNormalizeRaises)
NextIter ==
    \/ \E key \in MethodKeys : Construct("bpe", key, 0) \/ ConstructRaises("bpe", key, 0)
    \/ \E ns \in 0 .. MaxSents, nt \in 0 .. MaxSents : CallAlignSpansIter(ns, nt)
    \/ \E pair \in SpanPairShapes : IterTokenize(pair)
    \/ IterTokenizeRaises
    \/ IterStartBatches
    \/ /\ pc = "iter_pair"
       /\ sent_id < source_len
       /\ \E data \in FlatSims(NumSpans(NumWords(PairAtHand[1])),
                               NumSpans(NumWords(PairAtHand[2]))) :
             IterNormalize(data) \/ IterNormalizeRaises(data)
    \/ GreedyStep
    \/ GreedyReturn
    \/ IterLinks
    \/ IterReturn

SpecIter == Init /\ [][NextIter]_vars

\* C6: when the cosine matrix is constant, get_similarity_norm returns a
\* finite matrix, so that no 0 / 0 cell is returned nor reaches
\* get_alignmatrix_iter in align_spans_iter.
C6_NormalizedMatrixIsFinite ==
    pc \in {"greedy", "greedy_done"} => ~HasNaN(sim)

---------------------------------------------------------------------------
(* get_bpe_index *)

\* seq.index(v): the 0-based position of the first occurrence of v
IndexOf(seq, v) ==
    (CHOOSE k \in 1 .. Len(seq) :
        /\ seq[k] = v
        /\ \A q \in 1 .. k - 1 : seq[q] # v) - 1

\* list(range(map.index(span[0]), map.index(span[-1] + 1))) if span[-1] + 1
\* is in map, else list(range(map.index(span[0]), len(map)))
BpeRange(map, span) ==
    LET lo == IndexOf(map, span[1])
        hi == IF span[Len(span)] + 1 \in Range(map)
              THEN IndexOf(map, span[Len(span)] + 1)
              ELSE Len(map)
    IN  [k \in 1 .. hi - lo |-> lo + (k - 1)]

\* the element of spans_pair for one sentence: bpe_map is the pair of
\* sub-word-to-word maps of the sentence, src_idx and tgt_idx its span lists
get_bpe_index(bpe_map, src_idx, tgt_idx, reverse) ==
    IF ~reverse
    THEN << [k \in 1 .. Len(src_idx) |-> BpeRange(bpe_map[1], src_idx[k])],
            [k \in 1 .. Len(tgt_idx) |-> BpeRange(bpe_map[2], tgt_idx[k])] >>
    ELSE << [k \in 1 .. Len(src_idx) |-> BpeRange(bpe_map[2], src_idx[k])],
            [k \in 1 .. Len(tgt_idx) |-> BpeRange(bpe_map[1], tgt_idx[k])] >>

---------------------------------------------------------------------------
(* align_spans_bidirection *)

\* [span for span in sent if len(span) == 1]
WordSpans(spans) == SelectSeq(spans, LAMBDA span : Len(span) = 1)

\* sentences_b2w_map[k]
B2wMapPair(pair) == <<b2w_map(pair[1]), b2w_map(pair[2])>>

\* s2t_spans_pair_bpe = get_bpe_index(sentences_b2w_map, source_spans, target_words)
s2t_spans_pair_bpe ==
    [k \in 1 .. Len(words_tokens) |->
        get_bpe_index(B2wMapPair(words_tokens[k]),
                      get_span_index(words_tokens[k][1]),
                      WordSpans(get_span_index(words_tokens[k][2])), FALSE)]

\* t2s_spans_pair_bpe = get_bpe_index(sentences_b2w_map, target_spans, source_words, True)
t2s_spans_pair_bpe ==
    [k \in 1 .. Len(words_tokens) |->
        get_bpe_index(B2wMapPair(words_tokens[k]),
                      get_span_index(words_tokens[k][2]),
                      WordSpans(get_span_index(words_tokens[k][1])), TRUE)]

\* spans_pair_bpe == t2s_spans_pair_bpe, a comparison of the lists by value,
\* spans_pair_bpe being the element of [s2t_spans_pair_bpe, t2s_spans_pair_bpe]
\* of the pass
InT2sBranch ==
    (IF pass = 1 THEN s2t_spans_pair_bpe ELSE t2s_spans_pair_bpe) = t2s_spans_pair_bpe

\* what the provider's vectors give for a sentence pair: the similarity of
\* the source spans with the target words (s2t) and of the target spans with
\* the source words (t2s); a source word and a target word have one
\* similarity, whichever way round
EmbedsOf(pair) ==
    {e \in [s2t : FlatSims(NumSpans(NumWords(pair[1])), NumWords(pair[2])),
            t2s : FlatSims(NumSpans(NumWords(pair[2])), NumWords(pair[1]))] :
        \A i \in 0 .. NumWords(pair[1]) - 1 : \A j \in 0 .. NumWords(pair[2]) - 1 :
            e.s2t.a[i][j] = e.t2s.a[j][i]}

\* sim of the pair sent_id in the branch taken: the vectors are averaged over
\* spans_pair_bpe[sent_id], rows first
BidiSim == IF InT2sBranch THEN embeds[sent_id + 1].t2s ELSE embeds[sent_id + 1].s2t

\* the keys of span_scores: row and column are (target_spans, source_words)
\* and the key is "y-x" in the t2s branch, (source_spans, target_words) and
\* "x-y" otherwise
BidiLinks(mat, pair, t2s) ==
    LET row    == get_span_index(pair[IF t2s THEN 2 ELSE 1])
        column == WordSpans(get_span_index(pair[IF t2s THEN 1 ELSE 2]))
    IN  UNION {{IF t2s THEN FormatLink(y, x) ELSE FormatLink(x, y) :
                    x \in Range(row[c[1] + 1]), y \in Range(column[c[2] + 1])} :
               c \in MatchedCells(mat)}

\* the sentence pairs tried: words and sub-words alike on the two sides (one
\* word, two words), other sub-words, other numbers of words, a side
\* without words
BidiPairShapes ==
    {<< <<1>>, <<1>> >>, << <<1, 1>>, <<1, 1>> >>, << <<2, 1>>, <<1, 2>> >>,
     << <<1, 1>>, <<1>> >>, << <<>>, <<1>> >>}

\* align_spans_bidirection is called with ns source and nt target sentences
CallAlignSpansBidirection(ns, nt) ==
    /\ pc = "idle"
    /\ source_len' = ns
    /\ target_len' = nt
    /\ words_tokens' = <<>>
    /\ embeds' = <<>>
    /\ sent_id' = 0
    /\ pc' = "bidi_tokenize"
    /\ UNCHANGED <<objVars, sim, all_mats, aligns, result, vectors, spanVars>>

\* one round of the tokenizing loop of align_spans_bidirection; e is what the
\* provider will give for the pair
BidiTokenize(pair, e) ==
    /\ pc = "bidi_tokenize"
    /\ sent_id < source_len
    /\ sent_id < target_len
    /\ words_tokens' = Append(words_tokens, pair)
    /\ embeds' = Append(embeds, e)
    /\ sent_id' = sent_id + 1
    /\ UNCHANGED <<objVars, source_len, target_len, pc, sim, all_mats, aligns, result,
                   vectors, spanVars>>

\* the same round when target_sentences has no element sent_id: IndexError
BidiTokenizeRaises ==
    /\ pc = "bidi_tokenize"
    /\ sent_id < source_len
    /\ sent_id >= target_len
    /\ pc' = "raised"
    /\ result' = "IndexError"
    /\ UNCHANGED <<objVars, corpusVars, sent_id, sim, all_mats, aligns, vectors, spanVars>>

\* the maps, the span lists and the two span maps are derived,
\* s2t_aligns, t2s_aligns = [], [], and the first pass of the outer loop
\* builds its data loader
BidiStartPasses ==
    /\ pc = "bidi_tokenize"
    /\ sent_id = source_len
    /\ pass' = 1
    /\ s2t_aligns' = <<>>
    /\ t2s_aligns' = <<>>
    /\ sent_id' = 0
    /\ pc' = "bidi_pair"
    /\ UNCHANGED <<objVars, corpusVars, sim, all_mats, aligns, result, vectors, alignmatrix,
                   roundVars>>

\* the body of the loop over the batch for the pair sent_id
BidiPair ==
    /\ pc = "bidi_pair"
    /\ sent_id < source_len
    /\ LET t2s == InT2sBranch
           S   == IF t2s THEN embeds[sent_id + 1].t2s ELSE embeds[sent_id + 1].s2t
           fr  == get_alignment_matrix(S)
           str == JoinSpace(SortedStrings(BidiLinks(fr.rev, PairAtHand, t2s)))
       IN  /\ ~ArgmaxRaises(S)
           /\ vectors' = S
           /\ sim' = S
           /\ all_mats' = fr
           /\ IF t2s
              THEN t2s_aligns' = Append(t2s_aligns, str) /\ s2t_aligns' = s2t_aligns
              ELSE s2t_aligns' = Append(s2t_aligns, str) /\ t2s_aligns' = t2s_aligns
    /\ sent_id' = sent_id + 1
    /\ UNCHANGED <<pc, objVars, corpusVars, aligns, result, alignmatrix, pass, roundVars>>

\* the same body for a pair with a side without words: get_similarity raises
\* ValueError on the 1-dimensional empty array
BidiPairRaises ==
    /\ pc = "bidi_pair"
    /\ sent_id < source_len
    /\ ArgmaxRaises(BidiSim)
    /\ vectors' = BidiSim
    /\ pc' = "raised"
    /\ result' = "ValueError"
    /\ UNCHANGED <<objVars, corpusVars, sent_id, sim, all_mats, aligns, spanVars>>

\* the first pass is over: the second builds its data loader
BidiNextPass ==
    /\ pc = "bidi_pair"
    /\ sent_id = source_len
    /\ pass = 1
    /\ pass' = 2
    /\ sent_id' = 0
    /\ UNCHANGED <<pc, objVars, corpusVars, sim, all_mats, aligns, result, vectors,
                   alignmatrix, s2t_aligns, t2s_aligns, roundVars>>

\* [i for i in s2t_aligns[k].split() if i in t2s_aligns[k].split()], sorted
\* by the integer key and joined
BidiIntersection(s2t, t2s) ==
    JoinSpace(SortedLinks({i \in Range(SplitWords(s2t)) : i \in Range(SplitWords(t2s))}))

\* both passes are over: aligns is built over range(len(s2t_aligns)) and
\* returned (t2s_aligns is never the shorter list)
BidiReturn ==
    /\ pc = "bidi_pair"
    /\ sent_id = source_len
    /\ pass = 2
    /\ aligns' = [k \in 1 .. Len(s2t_aligns) |->
                    BidiIntersection(s2t_aligns[k], t2s_aligns[k])]
    /\ pc' = "returned"
    /\ result' = "aligns"
    /\ UNCHANGED <<objVars, corpusVars, sent_id, sim, all_mats, vectors, spanVars>>

\* the steps of an object on which align_spans_bidirection is called
NextBidi ==
    \/ \E key \in MethodKeys : Construct("bpe", key, 0) \/ ConstructRaises("bpe", key, 0)
    \/ \E ns \in 0 .. MaxSents, nt \in 0 .. MaxSents : CallAlignSpansBidirection(ns, nt)
    \/ \E pair \in BidiPairShapes : \E e \in EmbedsOf(pair) : BidiTokenize(pair, e)
    \/ BidiTokenizeRaises
    \/ BidiStartPasses
    \/ BidiPair
    \/ BidiPairRaises
    \/ BidiNextPass
    \/ BidiReturn

SpecBidi == Init /\ [][NextBidi]_vars

\* C2: for equal-length, non-empty sentence lists align_spans_bidirection
\* returns exactly one alignment string per sentence pair, the k-th string
\* linking words of the k-th pair, also when the source-anchored and the
\* target-anchored span maps are equal by value.
C2_OneStringPerSentencePair ==
    (pc = "returned" /\ source_len = target_len /\ source_len >= 1) =>
        /\ Len(aligns) = source_len
        /\ \A k \in 1 .. Len(aligns) : \A q \in 1 .. Len(LinksOf(aligns[k])) :
              /\ LinksOf(aligns[k])[q][1] < NumWords(words_tokens[k][1])
              /\ LinksOf(aligns[k])[q][2] < NumWords(words_tokens[k][2])

---------------------------------------------------------------------------
(* iter_max round by round, as a function of the similarity matrix and of   *)
(* max_count                                                                *)

\* the max_count arguments tried: 1, the default, and one more; a third
\* additional round would need cells over the denominator 2^64
MaxCounts == 1 .. DefaultMaxCount + 1

\* the m x n matrices that are flat but for one cell in each row, or but for
\* one cell in each column, over every background and every value of the cells
RoundSims(m, n) ==
    IF m = 0 \/ n = 0 THEN AllSims(m, n)
    ELSE {Matrix(m, n, MaxSim,
             [i \in 0 .. m - 1 |-> [j \in 0 .. n - 1 |->
                  IF j = c[i] THEN v[i] ELSE b]]) :
            b \in 0 .. MaxSim, c \in [0 .. m - 1 -> 0 .. n - 1],
            v \in [0 .. m - 1 -> 0 .. MaxSim]}
         \cup
         {Matrix(m, n, MaxSim,
             [i \in 0 .. m - 1 |-> [j \in 0 .. n - 1 |->
                  IF i = c[j] THEN v[j] ELSE b]]) :
            b \in 0 .. MaxSim, c \in [0 .. n - 1 -> 0 .. m - 1],
            v \in [0 .. n - 1 -> 0 .. MaxSim]}

InitRounds ==
    /\ pc = "caller"
    /\ sim = NoMatrix
    /\ arg_max_count = 0
    /\ cur_inter = NoMatrix
    /\ cur_count = 0
    /\ token_type = "none"
    /\ matching_methods = "none"
    /\ distortion = 0
    /\ source_len = 0
    /\ target_len = 0
    /\ words_tokens = <<>>
    /\ embeds = <<>>
    /\ sent_id = 0
    /\ vectors = NoMatrix
    /\ all_mats = <<>>
    /\ aligns = <<>>
    /\ result = "none"
    /\ alignmatrix = NoMatrix
    /\ pass = 0
    /\ s2t_aligns = <<>>
    /\ t2s_aligns = <<>>

\* iter_max(sim_matrix, max_count) is called
CallIterMax ==
    /\ pc = "caller"
    /\ pc' = "iter_max"
    /\ \E m \in MatrixSides, n \in MatrixSides : sim' \in RoundSims(m, n)
    /\ arg_max_count' \in MaxCounts
    /\ UNCHANGED <<objVars, corpusVars, sent_id, vectors, all_mats, aligns, result,
                   alignmatrix, pass, s2t_aligns, t2s_aligns, cur_inter, cur_count>>

\* the first round: inter = forward * 0.5 + backward.transpose() * 0.5;
\* with min(m, n) <= 2 inter is returned, else count = 1 and the loop is
\* entered
IterMaxBegin ==
    /\ pc = "iter_max"
    /\ ~ArgmaxRaises(sim)
    /\ cur_inter' = IterMaxStart(sim)
    /\ IF Min(sim.m, sim.n) <= SmallSide
       THEN pc' = "iter_max_done" /\ cur_count' = cur_count
       ELSE pc' = "iter_max_loop" /\ cur_count' = 1
    /\ UNCHANGED <<objVars, corpusVars, sent_id, vectors, sim, all_mats, aligns, result,
                   alignmatrix, pass, s2t_aligns, t2s_aligns, arg_max_count>>

\* argmax over an empty axis raises ValueError
IterMaxRaises ==
    /\ pc = "iter_max"
    /\ ArgmaxRaises(sim)
    /\ pc' = "raised"
    /\ result' = "ValueError"
    /\ UNCHANGED <<objVars, corpusVars, sent_id, vectors, sim, all_mats, aligns, spanVars>>

\* one round of the while loop that adds new_inter to inter
IterMaxRound ==
    /\ pc = "iter_max_loop"
    /\ WhileCount(cur_count, arg_max_count)
    /\ \E new_inter \in {IterNewInter(sim, cur_inter)} :
           /\ ~IterFixedPoint(new_inter)
           /\ cur_inter' = IterAdd(cur_inter, new_inter)
    /\ cur_count' = cur_count + 1
    /\ UNCHANGED <<pc, objVars, corpusVars, sent_id, vectors, sim, all_mats, aligns, result,
                   alignmatrix, pass, s2t_aligns, t2s_aligns, arg_max_count>>

\* one round of the while loop that finds inter + new_inter equal to inter:
\* break, return inter
IterMaxBreak ==
    /\ pc = "iter_max_loop"
    /\ WhileCount(cur_count, arg_max_count)
    /\ \E new_inter \in {IterNewInter(sim, cur_inter)} : IterFixedPoint(new_inter)
    /\ pc' = "iter_max_done"
    /\ result' = "break"
    /\ UNCHANGED <<objVars, corpusVars, sent_id, vectors, sim, all_mats, aligns, spanVars>>

\* the loop condition count < max_count fails: return inter
IterMaxReturn ==
    /\ pc = "iter_max_loop"
    /\ ~WhileCount(cur_count, arg_max_count)
    /\ pc' = "iter_max_done"
    /\ UNCHANGED <<objVars, corpusVars, sent_id, vectors, sim, all_mats, aligns, result,
                   spanVars>>

\* the steps of a call of iter_max
IterMaxSteps ==
    \/ IterMaxBegin
    \/ IterMaxRaises
    \/ IterMaxRound
    \/ IterMaxBreak
    \/ IterMaxReturn

NextRounds ==
    \/ CallIterMax
    \/ IterMaxSteps

SpecRounds == InitRounds /\ [][NextRounds]_vars

\* the cells of M that hold a positive value: the matched cells
PositiveCells(M) == {c \in Rows(M) \X Cols(M) : M.a[c[1]][c[2]] > 0}

\* the accumulator has been computed and the call has neither returned nor raised
InRounds == pc = "iter_max_loop"

\* C11: iter_max never revokes a match. From the initial accumulator
\* 0.5 * Forward + 0.5 * Backward through every later round, no cell of the
\* accumulated matrix decreases, every positive cell stays positive, and the
\* number of positive cells does not decrease; the matrix returned is the
\* accumulator of the last round.
C11_RoundsNeverRevoke ==
    [][InRounds =>
         /\ \A i \in Rows(cur_inter) : \A j \in Cols(cur_inter) :
                cur_inter'.a[i][j] >= cur_inter.a[i][j] * (cur_inter'.den \div cur_inter.den)
         /\ cur_inter'.den % cur_inter.den = 0
         /\ PositiveCells(cur_inter) \subseteq PositiveCells(cur_inter')
         /\ Cardinality(PositiveCells(cur_inter')) >= Cardinality(PositiveCells(cur_inter))
         /\ cur_inter'.m = cur_inter.m /\ cur_inter'.n = cur_inter.n]_vars

\* two additional rounds have run and a cell unmatched by the first round is
\* matched now, next to the first round's matches
C11_Witness ==
    /\ InRounds
    /\ cur_count = DefaultMaxCount + 1
    /\ PositiveCells(IterMaxStart(sim)) # {}
    /\ PositiveCells(cur_inter) \ PositiveCells(IterMaxStart(sim)) # {}

\* a call of iter_max runs on: its steps are straight-line code that waits
\* for nothing, so a step that can be taken is taken (whether the caller
\* ever calls is left open)
SpecRoundsFair == SpecRounds /\ WF_vars(IterMaxSteps)

\* the call has returned or raised
IterMaxOver == pc \in {"iter_max_done", "raised"}

\* C12: iter_max terminates for every matrix and every max_count >= 1. After
\* the first round it runs at most max_count - 1 additional rounds (count
\* never exceeds max_count); a round that adds nothing to the accumulator
\* ends the call at once, with the accumulator as it was; with
\* min(m, n) <= 2 no additional round runs and the matrix returned is
\* 0.5 * Forward + 0.5 * Backward.
C12_IterMaxTerminates ==
    /\ (pc = "iter_max") ~> IterMaxOver
    /\ [](pc \in {"iter_max_loop", "iter_max_done"} =>
             cur_count - 1 <= arg_max_count - 1)
    /\ [][(InRounds /\ cur_count < arg_max_count
              /\ IterFixedPoint(IterNewInter(sim, cur_inter)))
            => (pc' = "iter_max_done" /\ cur_inter' = cur_inter
                  /\ cur_count' = cur_count)]_vars
    /\ [][(InRounds /\ pc' = "iter_max_done" /\ cur_count < arg_max_count)
            => IterFixedPoint(IterNewInter(sim, cur_inter))]_vars
    /\ []((pc = "iter_max_done" /\ Min(sim.m, sim.n) <= 2) =>
             /\ cur_count = 0
             /\ cur_inter = IterMaxStart(sim))

\* a 3 x 3 call with a budget of two additional rounds has returned after
\* one, which added to the accumulator, because the next one added nothing
C12_Witness ==
    /\ pc = "iter_max_done"
    /\ result = "break"
    /\ cur_count = DefaultMaxCount
    /\ arg_max_count = DefaultMaxCount + 1
    /\ cur_inter # IterMaxStart(sim)

---------------------------------------------------------------------------
(* apply_distortion on its own: every matrix of RoundSims with every ratio  *)

\* the ratios tried, in units of 1 / RatioDen: a negative one, 0, and the
\* ratios up to 1
DistortRatios == -1 .. RatioDen

InitDistort ==
    /\ pc = "caller"
    /\ sim = NoMatrix
    /\ arg_max_count = 0
    /\ cur_inter = NoMatrix
    /\ cur_count = 0
    /\ token_type = "none"
    /\ matching_methods = "none"
    /\ distortion = 0
    /\ source_len = 0
    /\ target_len = 0
    /\ words_tokens = <<>>
    /\ embeds = <<>>
    /\ sent_id = 0
    /\ vectors = NoMatrix
    /\ all_mats = <<>>
    /\ aligns = <<>>
    /\ result = "none"
    /\ alignmatrix = NoMatrix
    /\ pass = 0
    /\ s2t_aligns = <<>>
    /\ t2s_aligns = <<>>

\* the caller holds a matrix sim_matrix and a ratio
CallApplyDistortion ==
    /\ pc = "caller"
    /\ pc' = "apply_distortion"
    /\ \E m \in MatrixSides, n \in MatrixSides : sim' \in RoundSims(m, n)
    /\ distortion' \in DistortRatios
    /\ UNCHANGED <<token_type, matching_methods, corpusVars, sent_id, vectors, all_mats,
                   aligns, result, spanVars>>

\* apply_distortion(sim_matrix, ratio) returns
ApplyDistortion ==
    /\ pc = "apply_distortion"
    /\ pc' = "distorted"
    /\ vectors' = apply_distortion(sim, distortion)
    /\ UNCHANGED <<objVars, corpusVars, sent_id, sim, all_mats, aligns, result, spanVars>>

NextDistort ==
    \/ CallApplyDistortion
    \/ ApplyDistortion

SpecDistort == InitDistort /\ [][NextDistort]_vars

\* X and Y have the same shape and every entry of X is a number equal to the
\* entry of Y at its place
SameEntries(X, Y) ==
    /\ X.m = Y.m
    /\ X.n = Y.n
    /\ ~HasNaN(X)
    /\ ~HasNaN(Y)
    /\ \A i \in Rows(Y) : \A j \in Cols(Y) : X.a[i][j] * Y.den = Y.a[i][j] * X.den

\* C13: apply_distortion(S, ratio) returns S with every entry unchanged
\* whenever ratio is 0, whatever the shape of S, and whenever S has fewer
\* than 2 rows or fewer than 2 columns, whatever the ratio.
C13_DistortionIdentity ==
    (pc = "distorted" /\ (distortion = 0 \/ sim.m < 2 \/ sim.n < 2))
        => SameEntries(vectors, sim)

\* a matrix of one row and three columns with a positive cell has come back
\* from apply_distortion with a ratio that is not 0
C13_Witness ==
    /\ pc = "distorted"
    /\ distortion # 0
    /\ sim.m = 1
    /\ sim.n = SmallSide + 1
    /\ PositiveCells(sim) # {}
    /\ vectors = sim

---------------------------------------------------------------------------
(* The argument of get_alignmatrix_iter after the call (SpecGreedy, where   *)
(* vectors keeps the matrix as the caller passed it and sim is the array    *)
(* the loop works on, which is the caller's array)                          *)

\* C14: get_alignmatrix_iter treats its input as immutable: after it
\* returns, every entry of the matrix the caller passed in equals its value
\* before the call, so the similarity that align_spans_iter reads for a
\* committed cell after matching is the original similarity of that cell.
C14_InputMatrixUnchanged ==
    pc = "greedy_done" =>
        /\ \A i \in Rows(sim) : \A j \in Cols(sim) : sim.a[i][j] = vectors.a[i][j]
        /\ \A c \in Committed : sim.a[c[1]][c[2]] = vectors.a[c[1]][c[2]]

---------------------------------------------------------------------------
(* The masks of the additional rounds (SpecRounds)                          *)

\* row i of the accumulator has sum >= 1, resp. column j
RowSaturated(inter, i) == RowSum(inter, i) >= inter.den

ColSaturated(inter, j) == ColSum(inter, j) >= inter.den

\* C15: in every additional round of iter_max (min(m, n) > 2) a row or a
\* column whose accumulated sum is already >= 1 is fully masked: the round
\* adds no mass to any cell of such a row or of such a column, also when
\* the other axis of the cell has an accumulated sum < 1.
C15_SaturatedLinesGetNoMass ==
    [][(InRounds /\ cur_count' = cur_count + 1) =>
         \A i \in Rows(cur_inter) : \A j \in Cols(cur_inter) :
            (RowSaturated(cur_inter, i) \/ ColSaturated(cur_inter, j)) =>
                cur_inter'.a[i][j]
                    = cur_inter.a[i][j] * (cur_inter'.den \div cur_inter.den)]_vars

---------------------------------------------------------------------------
(* The links of align_spans_bidirection (SpecBidi)                          *)

\* the links of pair k in the source-anchored pass: the source spans against
\* the single target words, matched by reverse
S2tLinks(k) ==
    BidiLinks(get_alignment_matrix(embeds[k].s2t).rev, words_tokens[k], FALSE)

\* the links of pair k in the target-anchored pass: the target spans against
\* the single source words, matched by reverse
T2sLinks(k) ==
    BidiLinks(get_alignment_matrix(embeds[k].t2s).rev, words_tokens[k], TRUE)

\* C16: for every sentence pair k, a link "i-j" is in the k-th string
\* returned by align_spans_bidirection if and only if the source-anchored
\* pass and the target-anchored pass both produce it for pair k; each such
\* link is there once.
C16_LinkIffInBothPasses ==
    pc = "returned" =>
        \A k \in 1 .. source_len :
            /\ k <= Len(aligns)
            /\ Range(SplitWords(aligns[k])) = S2tLinks(k) \cap T2sLinks(k)
            /\ Len(SplitWords(aligns[k])) = Cardinality(Range(SplitWords(aligns[k])))

---------------------------------------------------------------------------
(* np.float64: the sums of get_alignments_freq are doubles, and the test
   vals >= 1.0 reads a double.  A double at hand is a fixed-point number of
   four digits in base 2^20, the lowest first, three of them after the
   point, rounded to 53 significant binary digits, ties to even. *)

\* the significant binary digits of a double
Precision == 53

\* the binary digits of one digit of the fixed-point number
LimbBits == 20

\* the digits after the point: 0.5 / 9, the smallest quotient at hand, has
\* its 53 digits between 2^-5 and 2^-57, and three more binary digits hold
\* what rounding looks at
FracLimbs == 3

\* the digits in all: sums stay far below 2^20
FxLimbs == FracLimbs + 1

RECURSIVE Pow2Of(_)
Pow2Of(k) == IF k = 0 THEN 1 ELSE 2 * Pow2Of(k - 1)

\* the powers of two up to the base
Pow2 == [k \in 0 .. LimbBits |-> Pow2Of(k)] @@ <<>>

\* the base
Limb == Pow2[LimbBits]

FxZero == [l \in 1 .. FxLimbs |-> 0] @@ <<>>

\* the carry into digit l of x + y
FxCarry(x, y, l) ==
    IF \E q \in 1 .. l - 1 :
          /\ x[q] + y[q] >= Limb
          /\ \A r \in q + 1 .. l - 1 : x[r] + y[r] >= Limb - 1
    THEN 1 ELSE 0

\* x + y, exactly
FxAdd(x, y) == [l \in 1 .. FxLimbs |-> (x[l] + y[l] + FxCarry(x, y, l)) % Limb] @@ <<>>

\* the binary digit k of x, the lowest being digit 1
FxBit(x, k) == (x[((k - 1) \div LimbBits) + 1] \div Pow2[(k - 1) % LimbBits]) % 2

\* the place of the highest binary digit 1 of x, 0 if x is zero
FxTop(x) ==
    IF \A l \in 1 .. FxLimbs : x[l] = 0 THEN 0
    ELSE LET l == CHOOSE q \in 1 .. FxLimbs :
                     x[q] # 0 /\ \A r \in q + 1 .. FxLimbs : x[r] = 0
         IN  (l - 1) * LimbBits
                + (CHOOSE k \in 1 .. LimbBits : Pow2[k - 1] <= x[l] /\ x[l] < Pow2[k])

\* x without its binary digits 1 .. drop
FxClearLow(x, drop) ==
    [l \in 1 .. FxLimbs |->
        IF drop >= l * LimbBits THEN 0
        ELSE IF drop <= (l - 1) * LimbBits THEN x[l]
        ELSE x[l] - (x[l] % Pow2[drop - (l - 1) * LimbBits])] @@ <<>>

\* the number whose only binary digit 1 is digit k
FxOneAt(k) ==
    [l \in 1 .. FxLimbs |->
        IF l = ((k - 1) \div LimbBits) + 1 THEN Pow2[(k - 1) % LimbBits] ELSE 0] @@ <<>>

\* x rounded to Precision significant digits, nearest, ties to even; more
\* says that the exact value is above x by less than the lowest digit of x
FxRound(x, more) ==
    LET drop == FxTop(x) - Precision
    IN  IF drop <= 0 THEN x
        ELSE LET kept == FxClearLow(x, drop)
                 rest == more \/ FxClearLow(x, drop - 1) # x
                 up   == FxBit(x, drop) = 1 /\ (rest \/ FxBit(x, drop + 1) = 1)
             IN  IF up THEN FxAdd(kept, FxOneAt(drop + 1)) ELSE kept

\* x + y of two doubles
FloatAdd(x, y) == FxRound(FxAdd(x, y), FALSE)

RECURSIVE RemAfter(_, _, _)
\* the remainder left by long division of r by den after k digits
RemAfter(r, den, k) == IF k = 0 THEN r ELSE (RemAfter(r, den, k - 1) * Limb) % den

\* num / den of two small integers, num <= den, as a double
FloatQuot(num, den) ==
    FxRound([l \in 1 .. FxLimbs |->
                IF l = FxLimbs THEN num \div den
                ELSE (RemAfter(num % den, den, FracLimbs - l) * Limb) \div den] @@ <<>>,
            RemAfter(num % den, den, FracLimbs) # 0)

\* x >= 1.0
FloatAtLeastOne(x) == x[FxLimbs] >= 1

---------------------------------------------------------------------------
(* get_alignments_freq and align_spans_freq *)

\* alignment_matrix = forward * 0.5 + reverse * 0.5, in halves
FreqAlignmentMatrix(fr) ==
    Matrix(fr.fwd.m, fr.fwd.n, 2,
           [i \in 0 .. fr.fwd.m - 1 |-> [j \in 0 .. fr.fwd.n - 1 |->
                fr.fwd.a[i][j] + fr.rev.a[i][j]]])

\* cell c (row-major) of al_matrix is > 0 and word x is in its source span,
\* word y in its target span
FreqCovers(al_matrix, src_spans, tgt_spans, x, y, c) ==
    /\ al_matrix.a[c \div al_matrix.n][c % al_matrix.n] > 0
    /\ x \in Range(src_spans[(c \div al_matrix.n) + 1])
    /\ y \in Range(tgt_spans[(c % al_matrix.n) + 1])

\* the keys of align_count, as pairs of words
FreqKeys(al_matrix, src_spans, tgt_spans) ==
    UNION {Range(src_spans[c[1] + 1]) \X Range(tgt_spans[c[2] + 1]) :
           c \in MatchedCells(al_matrix)}

\* align_count['x-y']: the cells are added in the order of the loops over i
\* and j, acc[c] being the sum once the cells before c are added:
\* += al_matrix[i, j] / (len(src_spans[i]) * len(tgt_spans[j]))
AlignCount(al_matrix, src_spans, tgt_spans, x, y) ==
    LET acc[c \in 0 .. al_matrix.m * al_matrix.n] ==
            IF c = 0 THEN FxZero
            ELSE IF FreqCovers(al_matrix, src_spans, tgt_spans, x, y, c - 1)
            THEN FloatAdd(acc[c - 1],
                    FloatQuot(al_matrix.a[(c - 1) \div al_matrix.n][(c - 1) % al_matrix.n],
                              al_matrix.den * (Len(src_spans[((c - 1) \div al_matrix.n) + 1])
                                                 * Len(tgt_spans[((c - 1) % al_matrix.n) + 1]))))
            ELSE acc[c - 1]
    IN  acc[al_matrix.m * al_matrix.n]

\* get_alignments_freq: align_count, a double for each key
get_alignments_freq(al_matrix, src_spans, tgt_spans) ==
    [key \in FreqKeys(al_matrix, src_spans, tgt_spans) |->
        AlignCount(al_matrix, src_spans, tgt_spans, key[1], key[2])] @@ <<>>

\* [p for p, vals in span_scores.items() if vals >= 1.0]
FreqLinks(span_scores) ==
    {FormatLink(key[1], key[2]) : key \in {k \in DOMAIN span_scores :
                                              FloatAtLeastOne(span_scores[k])}}

\* the sentence pairs tried: one, two and three words a side, and a side
\* without words
FreqPairShapes ==
    {<<PlainSentence(k), PlainSentence(k)>> : k \in 1 .. MaxD}
        \cup {<<PlainSentence(0), PlainSentence(1)>>}

\* align_spans_freq is called with ns source and nt target sentences
CallAlignSpansFreq(ns, nt) ==
    /\ pc = "idle"
    /\ source_len' = ns
    /\ target_len' = nt
    /\ words_tokens' = <<>>
    /\ embeds' = <<>>
    /\ sent_id' = 0
    /\ pc' = "freq_tokenize"
    /\ UNCHANGED <<objVars, sim, all_mats, aligns, result, vectors, spanVars>>

\* one round of the tokenizing loop of align_spans_freq
FreqTokenize(pair) ==
    /\ pc = "freq_tokenize"
    /\ sent_id < source_len
    /\ sent_id < target_len
    /\ words_tokens' = Append(words_tokens, pair)
    /\ sent_id' = sent_id + 1
    /\ UNCHANGED <<objVars, source_len, target_len, embeds, pc, sim, all_mats, aligns,
                   result, vectors, spanVars>>

\* the same round when target_sentences has no element sent_id: IndexError
FreqTokenizeRaises ==
    /\ pc = "freq_tokenize"
    /\ sent_id < source_len
    /\ sent_id >= target_len
    /\ pc' = "raised"
    /\ result' = "IndexError"
    /\ UNCHANGED <<objVars, corpusVars, sent_id, sim, all_mats, aligns, vectors, spanVars>>

\* the maps and the span lists are derived, the data loader is built,
\* aligns = []
FreqStartBatches ==
    /\ pc = "freq_tokenize"
    /\ sent_id = source_len
    /\ sent_id' = 0
    /\ aligns' = <<>>
    /\ pc' = "freq_pair"
    /\ UNCHANGED <<objVars, corpusVars, sim, all_mats, result, vectors, spanVars>>

\* the body of the loop over the batch for the pair sent_id, data being the
\* similarity of its span vectors
FreqPair(data) ==
    /\ pc = "freq_pair"
    /\ sent_id < source_len
    /\ ~ArgmaxRaises(data)
    /\ \E fr \in {get_alignment_matrix(data)} :
        \E al \in {FreqAlignmentMatrix(fr)} :
        \E src_spans \in {get_span_index(PairAtHand[1])} :
        \E tgt_spans \in {get_span_index(PairAtHand[2])} :
           /\ all_mats' = fr
           /\ alignmatrix' = al
           /\ aligns' = Append(aligns,
                 JoinSpace(SortedLinks(FreqLinks(
                    get_alignments_freq(al, src_spans, tgt_spans)))))
    /\ sim' = data
    /\ sent_id' = sent_id + 1
    /\ UNCHANGED <<pc, objVars, corpusVars, result, vectors, pass, s2t_aligns, t2s_aligns,
                   roundVars>>

\* the same body for a pair with a side without spans: get_similarity raises
\* ValueError on the 1-dimensional empty array
FreqPairRaises(data) ==
    /\ pc = "freq_pair"
    /\ sent_id < source_len
    /\ ArgmaxRaises(data)
    /\ pc' = "raised"
    /\ result' = "ValueError"
    /\ UNCHANGED <<objVars, corpusVars, sent_id, sim, all_mats, aligns, vectors, spanVars>>

\* return aligns
FreqReturn ==
    /\ pc = "freq_pair"
    /\ sent_id = source_len
    /\ pc' = "returned"
    /\ result' = "aligns"
    /\ UNCHANGED <<objVars, corpusVars, sent_id, sim, all_mats, aligns, vectors, spanVars>>

\* the steps of an object on which align_spans_freq is called
NextFreq ==
    \/ \E key \in MethodKeys : Construct("bpe", key, 0) \/ ConstructRaises("bpe", key, 0)
    \/ \E ns \in 0 .. MaxSents, nt \in 0 .. MaxSents : CallAlignSpansFreq(ns, nt)
    \/ \E pair \in FreqPairShapes : FreqTokenize(pair)
    \/ FreqTokenizeRaises
    \/ FreqStartBatches
    \/ /\ pc = "freq_pair"
       /\ sent_id < source_len
       /\ \E data \in FlatSims(NumSpans(NumWords(PairAtHand[1])),
                               NumSpans(NumWords(PairAtHand[2]))) :
             FreqPair(data) \/ FreqPairRaises(data)
    \/ FreqReturn

SpecFreq == Init /\ [][NextFreq]_vars

\* 72 times the sum, over the cells (i, j) with A[i, j] > 0 whose source
\* span holds x and whose target span holds y, of
\* A[i, j] / (|src_span_i| * |tgt_span_j|): A is in halves and the products
\* of two span lengths up to 3 divide 36
Weight72(A, src_spans, tgt_spans, x, y) ==
    SumTo([c \in 0 .. A.m * A.n - 1 |->
              IF FreqCovers(A, src_spans, tgt_spans, x, y, c)
              THEN (A.a[c \div A.n][c % A.n] * 36)
                      \div (Len(src_spans[(c \div A.n) + 1]) * Len(tgt_spans[(c % A.n) + 1]))
              ELSE 0], A.m * A.n)

\* the pair whose string was appended last
LastPair == words_tokens[Len(aligns)]

\* C17: with A = 0.5 * Forward + 0.5 * Backward over the span cells,
\* align_spans_freq outputs the word pair x-y if and only if the sum, over
\* the span cells (i, j) with A[i, j] > 0 whose source span contains x and
\* whose target span contains y, of A[i, j] / (|src_span_i| * |tgt_span_j|)
\* is >= 1.0; in particular two single-word spans that are each other's
\* best match yield their link.
C17_LinkIffWeightAtLeastOne ==
    (pc \in {"freq_pair", "returned"} /\ Len(aligns) >= 1 /\ Len(aligns) = sent_id) =>
        /\ \A x \in 0 .. NumWords(LastPair[1]) - 1 :
           \A y \in 0 .. NumWords(LastPair[2]) - 1 :
              (FormatLink(x, y) \in Range(SplitWords(aligns[Len(aligns)])))
                 <=> (Weight72(alignmatrix, get_span_index(LastPair[1]),
                               get_span_index(LastPair[2]), x, y) >= 72)
        /\ \A x \in 0 .. NumWords(LastPair[1]) - 1 :
           \A y \in 0 .. NumWords(LastPair[2]) - 1 :
              (all_mats.fwd.a[x][y] = 1 /\ all_mats.rev.a[x][y] = 1)
                 => FormatLink(x, y) \in Range(SplitWords(aligns[Len(aligns)]))

---------------------------------------------------------------------------
(* get_bpe_index, called on its own *)

\* a word is split into 0..MaxSubwords sub-words: tokenize(word) is empty
\* for a word of characters the tokenizer drops
MaxSubwords == 2

\* the tokenized sentences of up to MaxD words
BpeSentences == UNION {[1 .. k -> 0 .. MaxSubwords] : k \in 0 .. MaxD}

\* no call is running
InitCaller ==
    /\ pc = "caller"
    /\ token_type = "none"
    /\ matching_methods = "none"
    /\ distortion = 0
    /\ source_len = 0
    /\ target_len = 0
    /\ words_tokens = <<>>
    /\ embeds = <<>>
    /\ sent_id = 0
    /\ vectors = NoMatrix
    /\ sim = NoMatrix
    /\ all_mats = <<>>
    /\ aligns = <<>>
    /\ result = "none"
    /\ alignmatrix = NoMatrix
    /\ cur_inter = NoMatrix
    /\ cur_count = 0
    /\ arg_max_count = 0
    /\ pass = 0
    /\ s2t_aligns = <<>>
    /\ t2s_aligns = <<>>

\* the span lists of the call for the pair: src_idx and tgt_idx are the span
\* lists of the sentences whose maps get_bpe_index reads for them, the
\* other way round when reverse is set
BpeSrcIdx(pair, reverse) == get_span_index(pair[IF reverse THEN 2 ELSE 1])
BpeTgtIdx(pair, reverse) == get_span_index(pair[IF reverse THEN 1 ELSE 2])

\* map.index(span[0]) raises ValueError for some span of the list
IndexRaises(map, spans) == \E k \in 1 .. Len(spans) : spans[k][1] \notin Range(map)

\* the call's reverse argument, kept in pass
BpeReverse == pass = 1

\* get_bpe_index is called for one sentence pair
CallGetBpeIndex(pair, reverse) ==
    /\ pc = "caller"
    /\ words_tokens' = <<pair>>
    /\ pass' = IF reverse THEN 1 ELSE 0
    /\ pc' = "get_bpe_index"
    /\ UNCHANGED <<objVars, source_len, target_len, embeds, sent_id, vectors, sim, all_mats,
                   aligns, result, alignmatrix, s2t_aligns, t2s_aligns, roundVars>>

\* the loops over src_idx and tgt_idx, and return spans_pair
GetBpeIndexReturn ==
    /\ pc = "get_bpe_index"
    /\ ~IndexRaises(B2wMapPair(words_tokens[1])[IF BpeReverse THEN 2 ELSE 1],
                    BpeSrcIdx(words_tokens[1], BpeReverse))
    /\ ~IndexRaises(B2wMapPair(words_tokens[1])[IF BpeReverse THEN 1 ELSE 2],
                    BpeTgtIdx(words_tokens[1], BpeReverse))
    /\ result' = get_bpe_index(B2wMapPair(words_tokens[1]),
                               BpeSrcIdx(words_tokens[1], BpeReverse),
                               BpeTgtIdx(words_tokens[1], BpeReverse), BpeReverse)
    /\ pc' = "returned"
    /\ UNCHANGED <<objVars, corpusVars, sent_id, vectors, sim, all_mats, aligns, spanVars>>

\* the same loops when the first word of a span has no sub-word: ValueError
GetBpeIndexRaises ==
    /\ pc = "get_bpe_index"
    /\ \/ IndexRaises(B2wMapPair(words_tokens[1])[IF BpeReverse THEN 2 ELSE 1],
                      BpeSrcIdx(words_tokens[1], BpeReverse))
       \/ IndexRaises(B2wMapPair(words_tokens[1])[IF BpeReverse THEN 1 ELSE 2],
                      BpeTgtIdx(words_tokens[1], BpeReverse))
    /\ result' = "ValueError"
    /\ pc' = "raised"
    /\ UNCHANGED <<objVars, corpusVars, sent_id, vectors, sim, all_mats, aligns, spanVars>>

NextBpe ==
    \/ \E pair \in BpeSentences \X BpeSentences, reverse \in BOOLEAN :
          CallGetBpeIndex(pair, reverse)
    \/ GetBpeIndexReturn
    \/ GetBpeIndexRaises

SpecBpe == InitCaller /\ [][NextBpe]_vars

\* the positions of the sub-words of map whose word index lies in span,
\* ascending
SubwordsIn(map, span) ==
    SelectSeq([p \in 1 .. Len(map) |-> p - 1], LAMBDA p : map[p + 1] \in Range(span))

\* C18: for every sub-word-to-word map of a sentence and every word span of
\* get_span_index for that sentence, get_bpe_index returns exactly the
\* contiguous list of the sub-word positions whose word index lies in the
\* span.
C18_SpanSubwords ==
    /\ pc # "raised"
    /\ pc = "returned" =>
          /\ \A k \in 1 .. Len(result[1]) :
                result[1][k] = SubwordsIn(B2wMapPair(words_tokens[1])[IF BpeReverse THEN 2 ELSE 1],
                                          BpeSrcIdx(words_tokens[1], BpeReverse)[k])
          /\ \A k \in 1 .. Len(result[2]) :
                result[2][k] = SubwordsIn(B2wMapPair(words_tokens[1])[IF BpeReverse THEN 1 ELSE 2],
                                          BpeTgtIdx(words_tokens[1], BpeReverse)[k])
          /\ Len(result[1]) = Len(BpeSrcIdx(words_tokens[1], BpeReverse))
          /\ Len(result[2]) = Len(BpeTgtIdx(words_tokens[1], BpeReverse))

---------------------------------------------------------------------------
(* get_alignmatrix_iter, called on its own *)

\* get_alignmatrix_iter(sim_matrix, src_spans, tgt_spans) is called with a
\* matrix over the spans of a pair of short sentences
CallGetAlignmatrixIter ==
    /\ pc = "caller"
    /\ \E c \in WordCounts :
          /\ words_tokens' = << <<PlainSentence(c[1]), PlainSentence(c[2])>> >>
          /\ sim' \in AllSims(NumSpans(c[1]), NumSpans(c[2]))
    /\ vectors' = sim'
    /\ alignmatrix' = Zeros(sim'.m, sim'.n)
    /\ pc' = "greedy"
    /\ UNCHANGED <<objVars, source_len, target_len, embeds, sent_id, all_mats, aligns, result,
                   pass, s2t_aligns, t2s_aligns, roundVars>>

\* the steps of the running call
GreedySteps == GreedyStep \/ GreedyReturn \/ GreedyRaises

NextGreedyCall == CallGetAlignmatrixIter \/ GreedySteps

SpecGreedyCall == InitCaller /\ [][NextGreedyCall]_vars

\* the call runs in the caller's thread: a step that can be taken is taken
SpecGreedyFair == SpecGreedyCall /\ WF_vars(GreedySteps)

\* C19: the greedy loop of get_alignmatrix_iter terminates for every finite
\* similarity matrix with at least one row and one column; each round
\* commits one cell and strictly reduces the number of positive entries of
\* the working matrix, and when the loop exits no entry of the working
\* matrix is positive.
C19_GreedyLoopTerminates ==
    /\ (pc = "greedy" /\ sim.m > 0 /\ sim.n > 0) ~> (pc = "greedy_done")
    /\ [][(pc = "greedy" /\ pc' = "greedy") =>
             /\ Cardinality(PositiveCells(sim')) < Cardinality(PositiveCells(sim))
             /\ \E c \in PositiveCells(sim) :
                   /\ alignmatrix.a[c[1]][c[2]] = 0
                   /\ alignmatrix' = [alignmatrix EXCEPT !.a[c[1]][c[2]] = 1]]_vars
    /\ [](pc = "greedy_done" => PositiveCells(sim) = {})

\* C19 witness: a call that went through two rounds and returned
C19_Witness ==
    /\ pc = "greedy_done"
    /\ Cardinality(Committed) >= 2
    /\ PositiveCells(sim) = {}
    /\ PositiveCells(vectors) # {}

\* the words of the source sentence that lie in a committed source span
CoveredSourceWords ==
    UNION {Range(get_span_index(PairAtHand[1])[c[1] + 1]) : c \in Committed}

\* the words of the target sentence that lie in a committed target span
CoveredTargetWords ==
    UNION {Range(get_span_index(PairAtHand[2])[c[2] + 1]) : c \in Committed}

\* every entry of the matrix is strictly positive
AllPositive(M) == \A i \in Rows(M) : \A j \in Cols(M) : M.a[i][j] > 0

\* C20: when get_alignmatrix_iter is run on a similarity matrix whose
\* entries are all strictly positive, with the span lists of get_span_index,
\* then at termination every source word is in some committed source span
\* or every target word is in some committed target span: no source word
\* and target word are both left uncovered.
C20_CoverageOnExhaustion ==
    (pc = "greedy_done" /\ AllPositive(vectors)) =>
        \/ 0 .. NumWords(PairAtHand[1]) - 1 \subseteq CoveredSourceWords
        \/ 0 .. NumWords(PairAtHand[2]) - 1 \subseteq CoveredTargetWords

\* C20 witness: two words a side, every entry positive, and the call
\* returns with both source words covered and a target word left out
C20_Witness ==
    /\ pc = "greedy_done"
    /\ AllPositive(vectors)
    /\ NumWords(PairAtHand[1]) = 2
    /\ NumWords(PairAtHand[2]) = 2
    /\ CoveredSourceWords = {0, 1}
    /\ CoveredTargetWords # {0, 1}

=============================================================================
